---- MODULE Spec2Model ----
(***************************************************************************)
(* Verification model of the WhatsApp Web library:                         *)
(*   - BinaryHandler / BinaryWriter / BinaryReader  (src/src/binary.js)    *)
(*   - RealWebSocketManager                         (src/unnamed/part_000) *)
(*   - ProductionWhatsAppClient            (src/src/production-client.js)  *)
(*   - whatsappDecrypt and its helpers              (src/unnamed/part_001) *)
(*   - the legacy WebSocketManager               (src/src/websocket.js)    *)
(*   - RealWhatsAppClient and SessionManager      (src/src/contacts.js)    *)
(* The specifications share the variables below:                           *)
(*   SpecCodec  drives encode / truncate / decode of the binary codec,     *)
(*   Spec       drives the connection supervisor of RealWebSocketManager,  *)
(*   SpecInfo   drives the supervisor together with getInfo(),             *)
(*   SpecReq    drives its requests across connect() and disconnect(),     *)
(*   SpecAuth   drives the requests and inbound frames of one connection,  *)
(*   SpecRoute  drives the routing of inbound frames to pending requests,  *)
(*   SpecClient drives the client's listeners, session store, outbound     *)
(*              queue and shutdown on top of an opened manager,            *)
(*   SpecCrypto drives whatsappDecrypt over sealed and tampered blobs,     *)
(*   SpecLegacy drives connect(), disconnect() and reconnection of the     *)
(*              legacy manager,                                            *)
(*   SpecSched  drives the outbound scheduler of RealWhatsAppClient,       *)
(*   SpecQueue  drives the production client's outbound queue with the     *)
(*              dispatch and the settlement of a message as two steps,     *)
(*   SpecRouteLive is SpecRoute with every armed request timer firing,     *)
(*   SpecKeep   drives one connect() followed by keep-alive, loss and      *)
(*              automatic reconnection; SpecKeepLive adds its timers'      *)
(*              fairness.                                                  *)
(***************************************************************************)
EXTENDS Integers, Sequences, FiniteSets, TLC

VARIABLES
  \* ---- codec harness (SpecCodec) ----
  cpc,       \* "idle" | "input" | "encoded" | "raw" | "decoded"
  cNode,     \* the JS value handed to BinaryHandler.encode
  cBuf,      \* the byte buffer handed to BinaryHandler.decode
  cTrunc,    \* TRUE when cBuf is a strict prefix of an encoded buffer
  cOut,      \* the outcome of BinaryHandler.decode(cBuf)
  \* ---- RealWebSocketManager fields (Spec) ----
  connectionState,     \* this.connectionState
  isConnected,         \* this.isConnected
  isAuthenticated,     \* this.isAuthenticated
  autoReconnect,       \* this.autoReconnect
  connectionAttempts,  \* this.connectionAttempts
  maxReconnectAttempts,\* this.maxReconnectAttempts (option)
  reconnectDelay,      \* this.reconnectDelay (option)
  keepAliveInterval,   \* this.keepAliveInterval (option)
  serverIndex,         \* this.serverIndex
  ws,                  \* readyState of this.ws, or "null"
  orphanErr,           \* sockets dropped by disconnect() that still owe 'error'+'close'
  orphanClose,         \* sockets dropped by disconnect() that still owe 'close'
  pingInterval,        \* this.pingInterval armed
  connectionMonitor,   \* this.connectionMonitor armed
  pongTimeout,         \* this.pongTimeout handle: "null" | "armed" | "fired"
  pongLeaked,          \* armed pong timers whose handle was overwritten
  reconnectTimer,      \* this.reconnectTimer handle: "null" | "armed" | "fired"
  reconnectLeaked,     \* armed reconnect timers whose handle was overwritten
  connectWaiters,      \* connect() calls awaiting their promise (timeout armed)
  discWaiters,         \* disconnect() calls suspended in the 100 ms wait
  messageQueue,        \* this.messageQueue: tag -> 0 or the id of the owning request
  requests,            \* id -> [tag, state, timer]: the promises of initializeAuth/loginWithSession
  lastDelay,           \* the reconnect scheduled last: delay range [lo, hi), attempts used
  lastOp,              \* name of the handler that ran last
  emitted,             \* events emitted by the handler that ran last
  \* ---- RealWebSocketManager authentication fields (SpecAuth) ----
  clientId,            \* this.clientId
  keysFrom,            \* where this.encKey / this.macKey come from: "none" | "session" | "conn"
  connectionInfo,      \* where the fields of this.connectionInfo come from: "null" | "session" | "conn"
  qrPayload,           \* payload of the 'qr' event emitted last
  resolvedWith,        \* id -> the qr field of the value its promise resolved with
  \* ---- ProductionWhatsAppClient fields (SpecClient) ----
  clReady,             \* this.isReady
  clAuth,              \* this.isAuthenticated
  rateLimitTimer,      \* the interval behind this.rateLimitTimer is armed
  outQueue,            \* this.messageQueue: ids of the queued messages
  outPromise,          \* id -> state of the promise _queueMessage returned
  clWaiting,           \* destroy()/logout() suspended in await websocket.disconnect()
  clOp,                \* name of the client method that ran last
  clState,             \* this.state
  clSaves,             \* arguments of the session.save calls still awaited
  clSession,           \* what the session store holds
  sessionData,         \* this.sessionData of the production client
  \* ---- whatsappDecrypt harness (SpecCrypto) ----
  kpc,                 \* "idle" | "input" | "done"
  kKey,             \* the macKey handed to whatsappDecrypt
  kBlob,               \* the ciphertext handed to whatsappDecrypt
  kOut,                \* the outcome of whatsappDecrypt
  \* ---- legacy WebSocketManager fields (SpecLegacy) ----
  lgState,             \* this.state: "disconnected" | "connected"
  isConnecting,        \* this.isConnecting
  reconnectAttempts,   \* this.reconnectAttempts
  lgMaxAttempts,       \* this.maxReconnectAttempts
  lgSock,              \* this.ws: "none" | "connecting" | "open" | "closed"
  lgChains,            \* chain -> where its innermost connect() stands
  lgCaller,            \* the promise connect() returned to the caller
  lgSettledOpen,       \* the socket was open and the state CONNECTED when it settled
  lgOp,                \* name of the step that ran last
  lgDisconnected,      \* disconnect() was called and the caller has not called connect() since
  \* ---- RealWhatsAppClient outbound scheduler (SpecSched) ----
  rlNow,               \* the clock, in ms
  rlQueued,            \* this.messageQueue.length
  messagingActive,     \* this.messagingActive
  rlTimeouts,          \* due times of the pending setTimeout callbacks
  rlPollDue,           \* the 1000 ms interval is due at rlNow and has not run yet
  rlSent,              \* messages handed to _queueMessage so far
  rlInFlight,          \* message functions started and not yet settled
  rlLastStart,         \* when the latest dispatch started, -1 before the first
  rlGap,               \* ms between the starts of the last two dispatches, -1 before the second
  rlOp,                \* name of the step that ran last
  \* ---- ProductionWhatsAppClient dispatch in progress (SpecQueue) ----
  outActive,           \* this.messagingActive
  outCurrent,          \* id of the message whose function is awaited, 0 if none
  outLog               \* ids of the messages dispatched so far, in dispatch order

codecVars == <<cpc, cNode, cBuf, cTrunc, cOut>>

wsVars == <<connectionState, isConnected, isAuthenticated, autoReconnect,
            connectionAttempts, maxReconnectAttempts, reconnectDelay,
            keepAliveInterval, serverIndex, ws, orphanErr, orphanClose,
            pingInterval, connectionMonitor, pongTimeout, pongLeaked,
            reconnectTimer, reconnectLeaked, connectWaiters, discWaiters,
            messageQueue, requests, lastDelay, lastOp, emitted>>

authVars == <<clientId, keysFrom, connectionInfo, qrPayload, resolvedWith>>

clientVars == <<clReady, clAuth, rateLimitTimer, outQueue, outPromise, clWaiting, clOp,
                clState, clSaves, clSession, sessionData>>

cryptoVars == <<kpc, kKey, kBlob, kOut>>

legacyVars == <<lgState, isConnecting, reconnectAttempts, lgMaxAttempts, lgSock,
                lgChains, lgCaller, lgSettledOpen, lgOp, lgDisconnected>>

\* the objects that stand beside the manager and its client
schedVars == <<rlNow, rlQueued, messagingActive, rlTimeouts, rlPollDue, rlSent,
               rlInFlight, rlLastStart, rlGap, rlOp>>

queueVars == <<outActive, outCurrent, outLog>>

sideVars == <<legacyVars, schedVars, queueVars>>

\* what the handlers of RealWebSocketManager never touch
restVars == <<codecVars, clientVars, cryptoVars, sideVars>>

vars == <<codecVars, wsVars, authVars, clientVars, cryptoVars, sideVars>>

(***************************************************************************)
(* JS values.  Strings are sequences of code points, byte strings are      *)
(* sequences of bytes, objects are insertion-ordered sequences of          *)
(* <<key, value>> entries.                                                 *)
(***************************************************************************)
Null == [k |-> "null", v |-> <<>>]

Undefined == [k |-> "undefined", v |-> <<>>]

Str(s) == [k |-> "str", v |-> s]

Num(n) == [k |-> "num", v |-> <<n>>]

Buf(b) == [k |-> "bytes", v |-> b]

Arr(a) == [k |-> "arr", v |-> a]

Obj(entries) == [k |-> "obj", v |-> entries]

sTag == <<116,97,103>>

sContent == <<99,111,110,116,101,110,116>>

sChildren == <<99,104,105,108,100,114,101,110>>

sAttributes == <<97,116,116,114,105,98,117,116,101,115>>

sNull == <<110,117,108,108>>

sObjectObject == <<91,111,98,106,101,99,116,32,79,98,106,101,99,116,93>>

sIq == <<105,113>>

sType == <<116,121,112,101>>

sId == <<105,100>>

sGet == <<103,101,116>>

sOne == <<49>>

sHello == <<104,101,108,108,111>>

sX == <<120>>

sCafe == <<99,97,102,233>>

\* this.TOKENS without the reserved slot 0: TOKENS[i] is the JS TOKENS[i]
TOKENS == <<
    <<115,116,114,101,97,109,58,115,116,97,114,116>>,
    <<115,116,114,101,97,109,58,101,110,100>>,
    <<105,113>>,
    <<109,101,115,115,97,103,101>>,
    <<110,111,116,105,102,105,99,97,116,105,111,110>>,
    <<112,114,101,115,101,110,99,101>>,
    <<114,101,99,101,105,112,116>>,
    <<114,101,115,112,111,110,115,101>>,
    <<115,117,99,99,101,115,115>>,
    <<102,97,105,108,117,114,101>>,
    <<97,117,116,104>>,
    <<99,104,97,108,108,101,110,103,101>>,
    <<116,121,112,101>>,
    <<105,100>>,
    <<102,114,111,109>>,
    <<116,111>>,
    <<120,109,108,110,115>>,
    <<99,108,97,115,115>>,
    <<116,101,120,116>>,
    <<109,101,100,105,97>>,
    <<105,109,97,103,101>>,
    <<118,105,100,101,111>>,
    <<97,117,100,105,111>>,
    <<100,111,99,117,109,101,110,116>>,
    <<98,111,100,121>>,
    <<112,97,114,116,105,99,105,112,97,110,116>>,
    <<103,114,111,117,112>>,
    <<99,111,110,116,97,99,116>>,
    <<115,116,97,116,117,115>> >>

\* this.TOKENS.length (the reserved slot 0 counts)
TOKENS_length == Len(TOKENS) + 1

\* this.TOKENS.indexOf(str): the JS index, -1 when absent
TOKENS_indexOf(s) ==
  IF \E i \in 1..Len(TOKENS) : TOKENS[i] = s
  THEN CHOOSE i \in 1..Len(TOKENS) :
         TOKENS[i] = s /\ \A j \in 1..(i-1) : TOKENS[j] # s
  ELSE -1

\* Buffer.concat, by halves
RECURSIVE Concat(_)
Concat(ss) ==
  IF Len(ss) = 0 THEN <<>>
  ELSE IF Len(ss) = 1 THEN ss[1]
  ELSE LET m == Len(ss) \div 2
       IN Concat(SubSeq(ss, 1, m)) \o Concat(SubSeq(ss, m + 1, Len(ss)))

\* Buffer.from(str, 'utf8') for code points below 0x800
Utf8Encode(s) ==
  Concat([i \in 1..Len(s) |->
            IF s[i] < 128 THEN <<s[i]>>
            ELSE <<192 + (s[i] \div 64), 128 + (s[i] % 64)>>])

\* buffer.toString('utf8'): malformed bytes decode to U+FFFD; long buffers
\* are decoded by halves, never split inside a two-byte sequence
RECURSIVE Utf8Decode(_)
Utf8Decode(b) ==
  IF Len(b) > 2
  THEN LET m0 == Len(b) \div 2
           m == IF b[m0] >= 194 /\ b[m0] < 224 /\ b[m0 + 1] >= 128 /\ b[m0 + 1] < 192
                THEN m0 + 1 ELSE m0
       IN Utf8Decode(SubSeq(b, 1, m)) \o Utf8Decode(SubSeq(b, m + 1, Len(b)))
  ELSE IF b = <<>> THEN <<>>
  ELSE IF b[1] < 128 THEN <<b[1]>> \o Utf8Decode(Tail(b))
  ELSE IF b[1] >= 194 /\ b[1] < 224 /\ Len(b) >= 2 /\ b[2] >= 128 /\ b[2] < 192
       THEN <<(b[1] - 192) * 64 + (b[2] - 128)>> \o Utf8Decode(Tail(Tail(b)))
  ELSE <<65533>> \o Utf8Decode(Tail(b))

\* Number.prototype.toString for non-negative integers
RECURSIVE ToDecimal(_)
ToDecimal(n) ==
  IF n < 10 THEN <<48 + n>> ELSE ToDecimal(n \div 10) \o <<48 + (n % 10)>>

\* obj[key] lookup
HasProp(o, key) == \E i \in 1..Len(o.v) : o.v[i][1] = key

GetProp(o, key) ==
  IF HasProp(o, key)
  THEN o.v[CHOOSE i \in 1..Len(o.v) : o.v[i][1] = key][2]
  ELSE Undefined

\* obj[key] = value
SetProp(o, key, val) ==
  IF HasProp(o, key)
  THEN Obj([i \in 1..Len(o.v) |->
              IF o.v[i][1] = key THEN <<key, val>> ELSE o.v[i]])
  ELSE Obj(Append(o.v, <<key, val>>))

\* JS truthiness
Truthy(x) ==
  CASE x.k = "null" -> FALSE
    [] x.k = "undefined" -> FALSE
    [] x.k = "str" -> x.v # <<>>
    [] x.k = "num" -> x.v[1] # 0
    [] OTHER -> TRUE

(***************************************************************************)
(* BinaryWriter: every write appends to the output, so an operation is the *)
(* byte sequence it appends.                                               *)
(***************************************************************************)
writeByte(byte) == <<byte % 256>>

writeBytes(bytes) == bytes

writeInt20(value) ==
  <<(value \div 65536) % 256, (value \div 256) % 256, value % 256>>

\* _writeString that always takes the 1-byte length form
_writeString_short(str) ==
  LET tokenIndex == TOKENS_indexOf(str)
      encoded == Utf8Encode(str)
  IN IF tokenIndex > 0 /\ tokenIndex < 256
     THEN writeByte(tokenIndex)
     ELSE writeByte(252) \o writeByte(Len(encoded)) \o writeBytes(encoded)

_writeString(str) ==
  LET tokenIndex == TOKENS_indexOf(str)
      encoded == Utf8Encode(str)
  IN IF tokenIndex > 0 /\ tokenIndex < 256
     THEN writeByte(tokenIndex)
     ELSE (IF Len(encoded) < 256
           THEN writeByte(252) \o writeByte(Len(encoded))
           ELSE writeByte(253) \o writeInt20(Len(encoded)))
          \o writeBytes(encoded)

_writeNumber(num) ==
  IF num >= 0 /\ num < 256
  THEN writeByte(250) \o writeByte(num)
  ELSE _writeString(ToDecimal(num))

_writeBytes(bytes) ==
  writeByte(254) \o writeInt20(Len(bytes)) \o writeBytes(bytes)

\* the entries of Object.entries(obj) that _writeObject counts as attributes
ObjAttributes(o) ==
  SelectSeq(o.v, LAMBDA e : e[1] # sTag /\ e[1] # sContent /\ e[1] # sChildren)

RECURSIVE _writeNode(_)
_writeArray(arr) ==
  writeByte(251) \o writeByte(Len(arr))
    \o Concat([i \in 1..Len(arr) |-> _writeNode(arr[i])])

_writeObject(o) ==
  LET attributes == ObjAttributes(o)
      content == GetProp(o, sContent)
      children == GetProp(o, sChildren)
  IN (IF Truthy(GetProp(o, sTag))
      THEN _writeString(GetProp(o, sTag).v)
      ELSE writeByte(0))
     \o writeByte(Len(attributes))
     \o Concat([i \in 1..Len(attributes) |->
                  _writeString(attributes[i][1]) \o _writeNode(attributes[i][2])])
     \o (IF content # Undefined THEN _writeNode(content)
         ELSE IF children.k = "arr" THEN _writeArray(children.v)
         ELSE writeByte(0))

_writeNode(node) ==
  CASE node.k = "str" -> _writeString(node.v)
    [] node.k = "num" -> _writeNumber(node.v[1])
    [] node.k = "bytes" -> _writeBytes(node.v)
    [] node.k = "arr" -> _writeArray(node.v)
    [] node.k = "obj" -> _writeObject(node)
    [] OTHER -> writeByte(0)

\* BinaryHandler.encode
encode(obj) == _writeNode(obj)

(***************************************************************************)
(* BinaryReader: a read returns [ok, val, pos, oob]; ok = FALSE is the     *)
(* thrown Error, oob records a read at or past data.length.                *)
(***************************************************************************)
Thrown(pos, oob) == [ok |-> FALSE, val |-> Null, pos |-> pos, oob |-> oob]

Got(val, pos, oob) == [ok |-> TRUE, val |-> val, pos |-> pos, oob |-> oob]

readByte(data, pos) ==
  IF pos >= Len(data)
  THEN Thrown(pos, FALSE)
  ELSE Got(data[pos + 1], pos + 1, FALSE)

readBytes(data, pos, count) ==
  IF pos + count > Len(data)
  THEN Thrown(pos, FALSE)
  ELSE Got(SubSeq(data, pos + 1, pos + count), pos + count, FALSE)

readInt20(data, pos) ==
  LET bytes == readBytes(data, pos, 3)
  IN IF ~bytes.ok THEN bytes
     ELSE Got(bytes.val[1] * 65536 + bytes.val[2] * 256 + bytes.val[3],
              bytes.pos, bytes.oob)

\* String(x) as used for a property key and inside Array.prototype.join
RECURSIVE ToStringJS(_)
ToStringJS(x) ==
  CASE x.k = "str" -> x.v
    [] x.k = "num" -> ToDecimal(x.v[1])
    [] x.k = "bytes" -> Utf8Decode(x.v)
    [] x.k = "null" -> sNull
    [] x.k = "arr" ->
         Concat([i \in 1..Len(x.v) |->
                   (IF i > 1 THEN <<44>> ELSE <<>>)
                   \o (IF x.v[i].k = "null" THEN <<>> ELSE ToStringJS(x.v[i]))])
    [] OTHER -> sObjectObject

RECURSIVE _readNode(_, _), readItems(_, _, _, _), readAttrs(_, _, _, _)
\* the loop of _readArray: n more elements, acc read so far
readItems(data, pos, n, acc) ==
  IF n = 0 THEN Got(Arr(acc), pos, FALSE)
  ELSE LET item == _readNode(data, pos)
       IN IF ~item.ok THEN item
          ELSE readItems(data, item.pos, n - 1, Append(acc, item.val))

_readArray(data, pos) ==
  LET length == readByte(data, pos)
  IN IF ~length.ok THEN Thrown(length.pos, length.oob)
     ELSE readItems(data, length.pos, length.val, <<>>)

\* the attribute loop of _readObject
readAttrs(data, pos, n, o) ==
  IF n = 0 THEN Got(o, pos, FALSE)
  ELSE LET key == _readNode(data, pos)
       IN IF ~key.ok THEN key
          ELSE LET value == _readNode(data, key.pos)
               IN IF ~value.ok THEN value
                  ELSE readAttrs(data, value.pos, n - 1,
                                 SetProp(o, ToStringJS(key.val), value.val))

_readObject(data, pos) ==
  LET tag == _readNode(data, pos)
  IN IF ~tag.ok THEN tag
     ELSE LET attributeCount == readByte(data, tag.pos)
          IN IF ~attributeCount.ok
             THEN Thrown(attributeCount.pos, attributeCount.oob)
             ELSE LET o0 == IF Truthy(tag.val)
                            THEN Obj(<< <<sTag, tag.val>> >>)
                            ELSE Obj(<<>>)
                      attrs == readAttrs(data, attributeCount.pos,
                                         attributeCount.val, o0)
                  IN IF ~attrs.ok THEN attrs
                     ELSE LET content == _readNode(data, attrs.pos)
                          IN IF ~content.ok THEN content
                             ELSE Got(IF content.val = Null THEN attrs.val
                                      ELSE IF content.val.k = "arr"
                                      THEN SetProp(attrs.val, sChildren, content.val)
                                      ELSE SetProp(attrs.val, sContent, content.val),
                                      content.pos, FALSE)

\* _readNode with the default branch returning null in place of throwing
_readNode_lenient(data, pos) ==
  LET marker == readByte(data, pos)
  IN IF ~marker.ok THEN Thrown(marker.pos, marker.oob)
     ELSE IF marker.val = 0 THEN Got(Null, marker.pos, marker.oob)
     ELSE IF marker.val >= 1 /\ marker.val < TOKENS_length
          THEN Got(Str(TOKENS[marker.val]), marker.pos, marker.oob)
     ELSE CASE marker.val = 250 ->
                 LET n == readByte(data, marker.pos)
                 IN IF ~n.ok THEN Thrown(n.pos, n.oob)
                    ELSE Got(Num(n.val), n.pos, n.oob)
            [] marker.val = 251 -> _readArray(data, marker.pos)
            [] marker.val = 252 ->
                 LET len8 == readByte(data, marker.pos)
                 IN IF ~len8.ok THEN Thrown(len8.pos, len8.oob)
                    ELSE LET b == readBytes(data, len8.pos, len8.val)
                         IN IF ~b.ok THEN b
                            ELSE Got(Str(Utf8Decode(b.val)), b.pos, b.oob)
            [] marker.val = 253 ->
                 LET len20 == readInt20(data, marker.pos)
                 IN IF ~len20.ok THEN Thrown(len20.pos, len20.oob)
                    ELSE LET b == readBytes(data, len20.pos, len20.val)
                         IN IF ~b.ok THEN b
                            ELSE Got(Str(Utf8Decode(b.val)), b.pos, b.oob)
            [] marker.val = 254 ->
                 LET bytesLen == readInt20(data, marker.pos)
                 IN IF ~bytesLen.ok THEN Thrown(bytesLen.pos, bytesLen.oob)
                    ELSE LET b == readBytes(data, bytesLen.pos, bytesLen.val)
                         IN IF ~b.ok THEN b
                            ELSE Got(Buf(b.val), b.pos, b.oob)
            [] marker.val = 255 -> _readObject(data, marker.pos)
            [] OTHER -> Got(Null, marker.pos, marker.oob)

_readNode(data, pos) ==
  LET marker == readByte(data, pos)
  IN IF ~marker.ok THEN Thrown(marker.pos, marker.oob)
     ELSE IF marker.val = 0 THEN Got(Null, marker.pos, marker.oob)
     ELSE IF marker.val >= 1 /\ marker.val < TOKENS_length
          THEN Got(Str(TOKENS[marker.val]), marker.pos, marker.oob)
     ELSE CASE marker.val = 250 ->
                 LET n == readByte(data, marker.pos)
                 IN IF ~n.ok THEN Thrown(n.pos, n.oob)
                    ELSE Got(Num(n.val), n.pos, n.oob)
            [] marker.val = 251 -> _readArray(data, marker.pos)
            [] marker.val = 252 ->
                 LET len8 == readByte(data, marker.pos)
                 IN IF ~len8.ok THEN Thrown(len8.pos, len8.oob)
                    ELSE LET b == readBytes(data, len8.pos, len8.val)
                         IN IF ~b.ok THEN b
                            ELSE Got(Str(Utf8Decode(b.val)), b.pos, b.oob)
            [] marker.val = 253 ->
                 LET len20 == readInt20(data, marker.pos)
                 IN IF ~len20.ok THEN Thrown(len20.pos, len20.oob)
                    ELSE LET b == readBytes(data, len20.pos, len20.val)
                         IN IF ~b.ok THEN b
                            ELSE Got(Str(Utf8Decode(b.val)), b.pos, b.oob)
            [] marker.val = 254 ->
                 LET bytesLen == readInt20(data, marker.pos)
                 IN IF ~bytesLen.ok THEN Thrown(bytesLen.pos, bytesLen.oob)
                    ELSE LET b == readBytes(data, bytesLen.pos, bytesLen.val)
                         IN IF ~b.ok THEN b
                            ELSE Got(Buf(b.val), b.pos, b.oob)
            [] marker.val = 255 -> _readObject(data, marker.pos)
            [] OTHER -> Thrown(marker.pos, marker.oob)

\* BinaryHandler.decode
decode(data) == _readNode(data, 0)

(***************************************************************************)
(* Codec harness: the values handed to encode and the buffers handed to    *)
(* decode.                                                                 *)
(***************************************************************************)
\* length of the literal that needs the String20 marker
LongLen == 256

sLong == [i \in 1..LongLen |-> 97]

ScalarPool ==
  { Str(<<>>), Str(sIq), Str(sHello), Str(sCafe), Str(sLong),
    Num(0), Num(255), Num(256),
    Buf(<<>>), Buf(<<1, 2, 255>>) }

ContentPool == { Str(sHello), Str(sIq), Buf(<<1, 2, 255>>), Num(7) }

AttrPool ==
  { <<>>,
    << <<sType, Str(sGet)>> >>,
    << <<sType, Str(sGet)>>, <<sId, Str(sOne)>> >>,
    << <<sX, Num(7)>> >> }

TagPool == { <<>>, << <<sTag, Str(sIq)>> >>, << <<sTag, Str(sX)>> >> }

\* {tag:"iq", type:"get", id:"1", content:"hello"}
ScenarioNode ==
  Obj(<< <<sTag, Str(sIq)>>, <<sType, Str(sGet)>>, <<sId, Str(sOne)>>,
         <<sContent, Str(sHello)>> >>)

\* {tag:"iq", attributes:{type:"get", id:"1"}, content:"hello"}
ScenarioNodeNested ==
  Obj(<< <<sTag, Str(sIq)>>,
         <<sAttributes, Obj(<< <<sType, Str(sGet)>>, <<sId, Str(sOne)>> >>)>>,
         <<sContent, Str(sHello)>> >>)

LeafNodes ==
  { Obj(t \o a \o c) :
      t \in TagPool, a \in AttrPool,
      c \in {<<>>} \cup { << <<sContent, x>> >> : x \in ContentPool } }

\* the Node values: tag optional, attributes, content absent / scalar / list
NodePool ==
  LeafNodes
  \cup { Obj(<< <<sTag, Str(sIq)>>, <<sChildren, Arr(<<n>>)>> >>) :
           n \in { ScenarioNode, Obj(<<>>) } }
  \cup { Obj(<< <<sTag, Str(sIq)>>, <<sContent, Arr(<<Str(sHello), Num(7)>>)>> >>),
         ScenarioNodeNested }

ArrayPool ==
  { Arr(<<>>) } \cup { Arr(<<x>>) : x \in ScalarPool }
  \cup { Arr(<<x, y>>) : x \in {Str(sIq), Num(7)}, y \in {Str(sHello), Buf(<<9>>)} }
  \cup { Arr(<<Arr(<<Str(sIq)>>), Num(1)>>) }

\* the largest count a 1-byte length or a 1-byte array count can hold
ByteMax == 255

\* the longest array handed to encode
MaxArrayLen == 48

\* the longest literal of the 1-byte length form and a long array
EdgePool ==
  { Str([i \in 1..ByteMax |-> 97]), Arr([i \in 1..MaxArrayLen |-> Num(7)]) }

Inputs == ScalarPool \cup ArrayPool \cup NodePool \cup EdgePool

IsNode(x) == x.k = "obj"

\* buffers as they can arrive from the network, marker 255 included
RawBuffers ==
  { <<255, 3, 1, 13, 252, 3, 103, 101, 116, 252, 5, 104, 101, 108, 108, 111>>,
    <<255, 0, 0, 251, 1, 255, 3, 0, 0>>,
    <<255, 3, 2, 13, 3>>,
    <<252, 5, 104>>,
    <<253, 0, 1, 0, 97>>,
    <<254, 0, 0, 2, 1>>,
    <<251, 2, 3>>,
    <<250>>,
    <<200>>,
    <<30, 1>>,
    <<>> }

\* buffers that decode without error, each with the offsets at which
\* _readNode reads its marker byte
MarkedBuffers ==
  { [buf |-> <<255, 3, 1, 13, 252, 3, 103, 101, 116, 252, 5, 104, 101, 108, 108, 111>>,
     markers |-> {0, 1, 3, 4, 9}],
    [buf |-> <<255, 0, 0, 251, 1, 255, 3, 0, 0>>,
     markers |-> {0, 1, 3, 5, 6, 8}],
    [buf |-> <<251, 2, 3, 250, 7>>, markers |-> {0, 2, 3}],
    [buf |-> <<250, 9>>, markers |-> {0}],
    [buf |-> <<0>>, markers |-> {0}] }

\* marker bytes that are neither 0, nor a token index, nor 250..255
UnknownMarkers == {TOKENS_length, 200, 249}

\* a decodable buffer in which one marker byte was replaced by an unknown one
CorruptedBuffers ==
  UNION { { [m.buf EXCEPT ![p + 1] = u] : p \in m.markers, u \in UnknownMarkers } :
          m \in MarkedBuffers }

NoOut == [ok |-> FALSE, val |-> Null, pos |-> 0, oob |-> FALSE]

CodecIdle ==
  /\ cpc = "idle" /\ cNode = Null /\ cBuf = <<>> /\ cTrunc = FALSE /\ cOut = NoOut

CodecInit ==
  /\ cTrunc = FALSE
  /\ cOut = NoOut
  /\ \/ cpc = "input" /\ cNode \in Inputs /\ cBuf = <<>>
     \/ cpc = "raw" /\ cNode = Null /\ cBuf \in RawBuffers \cup CorruptedBuffers

\* the caller runs BinaryHandler.encode(cNode)
Encode ==
  /\ cpc = "input"
  /\ cBuf' = encode(cNode)
  /\ cpc' = "encoded"
  /\ UNCHANGED <<cNode, cTrunc, cOut>>

\* the transport delivers only the first n bytes of the encoded buffer
Truncate ==
  /\ cpc = "encoded"
  /\ ~cTrunc
  /\ \E n \in 0..(Len(cBuf) - 1) :
       cBuf' = SubSeq(cBuf, 1, n)
  /\ cTrunc' = TRUE
  /\ UNCHANGED <<cpc, cNode, cOut>>

\* the caller runs BinaryHandler.decode(cBuf)
Decode ==
  /\ cpc \in {"encoded", "raw"}
  /\ cOut' = decode(cBuf)
  /\ cpc' = "decoded"
  /\ UNCHANGED <<cNode, cBuf, cTrunc>>

(***************************************************************************)
(* RealWebSocketManager                                                    *)
(***************************************************************************)
\* bounds of the exploration
AttemptsCap == 3

MaxWaiters == 2

MaxOrphans == 1

MaxLeaked == 1

MaxReq == 2

MaxTag == 2

\* program constants
maxDelay == 30000

jitterMax == 1000

PongDeadline == 5000

NumServers == 4

DefaultReconnectDelay == 2000

DefaultKeepAliveInterval == 20000

\* option values explored next to the defaults
MaxReconnectChoices == {2}

ReconnectDelayChoices == {DefaultReconnectDelay}

KeepAliveChoices == {DefaultKeepAliveInterval, 3000}

Tags == 1..MaxTag

ReqIds == 1..MaxReq

NoDelay == [lo |-> 0, hi |-> 0, attempts |-> 0]

NoRequest == [tag |-> 0, state |-> "none", timer |-> FALSE]

NoEntry == [desc |-> "none", owner |-> 0]

RECURSIVE Pow2(_)
Pow2(n) == IF n = 0 THEN 1 ELSE 2 * Pow2(n - 1)

Min(a, b) == IF a < b THEN a ELSE b

\* baseDelay * Math.pow(2, attempts - 1), exact for the even base delays used
ExponentialDelay(baseDelay, attempts) ==
  Min((baseDelay * Pow2(attempts)) \div 2, maxDelay)

\* _calculateBackoffDelay with Math.random() * 1000 = jitter
_calculateBackoffDelay(jitter) ==
  ExponentialDelay(reconnectDelay, connectionAttempts) + jitter

\* the delay of the timer being armed: Math.random() lies in [0, 1), so the
\* delay lies in [lo, hi)
ScheduledDelay ==
  [lo |-> _calculateBackoffDelay(0), hi |-> _calculateBackoffDelay(jitterMax),
   attempts |-> connectionAttempts]

(***************************************************************************)
(* whatsappDecrypt and the functions it calls.                             *)
(***************************************************************************)
HmacLen == 32

RECURSIVE SumBytes(_)
SumBytes(b) == IF b = <<>> THEN 0 ELSE Head(b) + SumBytes(Tail(b))

\* hmacSha256(key, data): a deterministic 32-byte digest of key and data
hmacSha256(key, data) ==
  [i \in 1..HmacLen |->
     (7 * SumBytes(key) + 13 * SumBytes(data) + 31 * Len(data) + 17 * i) % 256]

\* Buffer.slice(from, to) with 0 <= from <= to
Slice(b, from, to) == SubSeq(b, from + 1, Min(to, Len(b)))

\* aesDecrypt: decipher.setIVBytes is not a function, the call throws
aesDecrypt(key, ciphertext) ==
  [thrown |-> TRUE, error |-> "TypeError", value |-> <<>>]

\* whatsappDecrypt with the comparison of the two HMACs left out
whatsappDecrypt_unverified(encKey, macKey, ciphertext) ==
  LET encryptedData == Slice(ciphertext, HmacLen, Len(ciphertext))
      r == aesDecrypt(encKey, encryptedData)
  IN [thrown |-> r.thrown, error |-> r.error, aes |-> TRUE, value |-> r.value]

\* whatsappDecrypt; crypto.timingSafeEqual throws a RangeError on buffers of
\* different length
whatsappDecrypt(encKey, macKey, ciphertext) ==
  LET receivedHmac == Slice(ciphertext, 0, HmacLen)
      encryptedData == Slice(ciphertext, HmacLen, Len(ciphertext))
      computedHmac == hmacSha256(macKey, encryptedData)
  IN IF Len(receivedHmac) # Len(computedHmac)
     THEN [thrown |-> TRUE, error |-> "RangeError", aes |-> FALSE, value |-> <<>>]
     ELSE IF receivedHmac # computedHmac
     THEN [thrown |-> TRUE, error |-> "HMAC verification failed", aes |-> FALSE,
           value |-> <<>>]
     ELSE LET r == aesDecrypt(encKey, encryptedData)
          IN [thrown |-> r.thrown, error |-> r.error, aes |-> TRUE, value |-> r.value]

(***************************************************************************)
(* Authentication fields: strings are sequences of code points, keys are   *)
(* sequences of bytes.                                                     *)
(***************************************************************************)
\* the base64 alphabet
Base64Char(i) ==
  IF i < 26 THEN 65 + i
  ELSE IF i < 52 THEN 97 + (i - 26)
  ELSE IF i < 62 THEN 48 + (i - 52)
  ELSE IF i = 62 THEN 43 ELSE 47

\* Buffer.toString('base64')
RECURSIVE Base64(_)
Base64(b) ==
  IF Len(b) = 0 THEN <<>>
  ELSE IF Len(b) = 1
  THEN <<Base64Char(b[1] \div 4), Base64Char((b[1] % 4) * 16), 61, 61>>
  ELSE IF Len(b) = 2
  THEN <<Base64Char(b[1] \div 4), Base64Char((b[1] % 4) * 16 + b[2] \div 16),
         Base64Char((b[2] % 16) * 4), 61>>
  ELSE <<Base64Char(b[1] \div 4), Base64Char((b[1] % 4) * 16 + b[2] \div 16),
         Base64Char((b[2] % 16) * 4 + b[3] \div 64), Base64Char(b[3] % 64)>>
       \o Base64(SubSeq(b, 4, Len(b)))

\* Array.prototype.join(','): null and undefined elements are empty strings
RECURSIVE JoinComma(_)
JoinComma(parts) ==
  IF Len(parts) = 0 THEN <<>>
  ELSE IF Len(parts) = 1 THEN parts[1]
  ELSE parts[1] \o <<44>> \o JoinComma(Tail(parts))

\* crypto.randomBytes(16) of the call with the given id: calls differ
ClientIdBytes(id) == [i \in 1..16 |-> (37 * id + 11 * i) % 256]

\* generateRandomBase64(16) of the call with the given id
ClientIdOf(id) == Base64(ClientIdBytes(id))

\* sessionData.clientId
SessionClientId == <<115, 101, 115, 115>>

\* this.clientId = null
NoClientId == <<>>

\* crypto.randomBytes(32) in _generateKeyPair
PublicKeys == { [i \in 1..32 |-> (k * i) % 256] : k \in {3, 201} }

\* response.ref of an acknowledgement of init
Refs == { <<82, 49>> }

\* no 'qr' event yet, no promise resolved with a qr
NoPayload == <<>>

\* qrContent of _handleLoginResponse
QrContent(serverRef, publicKey) ==
  JoinComma(<<serverRef, Base64(publicKey), clientId>>)

\* the constructor
NoResolved == [r \in ReqIds |-> NoPayload]

\* this.connectionInfo as the constructor leaves it
NoConnectionInfo ==
  [clientToken |-> "null", serverToken |-> "null", secret |-> "null",
   sharedSecret |-> "null"]

\* a handler that emits no 'qr' event and resolves no login promise:
\* qrPayload and resolvedWith hold what the last handler handed out
NoQrEvent ==
  /\ qrPayload' = NoPayload
  /\ resolvedWith' = NoResolved
  /\ UNCHANGED <<clientId, keysFrom, connectionInfo>>

WsInit ==
  /\ clientId = NoClientId
  /\ keysFrom = "none"
  /\ connectionInfo = NoConnectionInfo
  /\ qrPayload = NoPayload
  /\ resolvedWith = NoResolved
  /\ connectionState = "disconnected"
  /\ isConnected = FALSE
  /\ isAuthenticated = FALSE
  /\ autoReconnect \in BOOLEAN
  /\ connectionAttempts = 0
  /\ maxReconnectAttempts \in MaxReconnectChoices
  /\ reconnectDelay \in ReconnectDelayChoices
  /\ keepAliveInterval \in KeepAliveChoices
  /\ serverIndex = 0
  /\ ws = "null"
  /\ orphanErr = 0
  /\ orphanClose = 0
  /\ pingInterval = FALSE
  /\ connectionMonitor = FALSE
  /\ pongTimeout = "null"
  /\ pongLeaked = 0
  /\ reconnectTimer = "null"
  /\ reconnectLeaked = 0
  /\ connectWaiters = 0
  /\ discWaiters = 0
  /\ messageQueue = [t \in Tags |-> NoEntry]
  /\ requests = [r \in ReqIds |-> NoRequest]
  /\ lastDelay = NoDelay
  /\ lastOp = "new"
  /\ emitted = <<>>

\* the handle after clearTimeout(handle); handle = null
Cleared(handle) == "null"

\* the fields _clearKeepAlive leaves behind
ClearKeepAlive ==
  [pingInterval |-> FALSE, connectionMonitor |-> FALSE,
   pongTimeout |-> Cleared(pongTimeout),
   reconnectTimer |-> Cleared(reconnectTimer)]

\* _clearKeepAlive as the last timer operation of a handler
_clearKeepAlive ==
  /\ pingInterval' = ClearKeepAlive.pingInterval
  /\ connectionMonitor' = ClearKeepAlive.connectionMonitor
  /\ pongTimeout' = ClearKeepAlive.pongTimeout
  /\ reconnectTimer' = ClearKeepAlive.reconnectTimer

\* _startKeepAlive: clear, then arm the ping interval and the monitor
_startKeepAlive ==
  /\ pingInterval' = TRUE
  /\ connectionMonitor' = TRUE
  /\ pongTimeout' = ClearKeepAlive.pongTimeout
  /\ reconnectTimer' = ClearKeepAlive.reconnectTimer

\* the catch block of connect() run once for each of n rejected calls, the
\* reconnect handle being h before: every run assigns connectionState and
\* either arms a reconnect timer or emits connection_failed
CatchArms == autoReconnect /\ connectionAttempts < maxReconnectAttempts

ConnectCatch(n, h) ==
  /\ connectionState' = "disconnected"
  /\ IF CatchArms
     THEN /\ reconnectTimer' = "armed"
          /\ reconnectLeaked' = reconnectLeaked + (n - 1) + (IF h = "armed" THEN 1 ELSE 0)
          /\ lastDelay' = ScheduledDelay
     ELSE /\ reconnectTimer' = h
          /\ reconnectLeaked' = reconnectLeaked
          /\ lastDelay' = lastDelay

CatchEvents(n) ==
  IF CatchArms THEN <<>> ELSE [i \in 1..n |-> "connection_failed"]

\* connect() without the test of connectionState at its entry
ConnectBody_unguarded(op) ==
  /\ lastOp' = op
  /\ emitted' = <<>>
  /\ connectionAttempts < AttemptsCap
  /\ connectWaiters < MaxWaiters
  /\ ~(reconnectTimer = "armed" /\ reconnectLeaked >= MaxLeaked)
  /\ connectionState' = "connecting"
  /\ connectionAttempts' = connectionAttempts + 1
  /\ serverIndex' = (serverIndex + 1) % NumServers
  /\ ws' = "CONNECTING"
  /\ connectWaiters' = connectWaiters + 1

\* connect(): returns at once while connecting or connected, otherwise
\* opens a new socket and waits for 'connected', 'error' or the timeout
ConnectBody(op) ==
  /\ lastOp' = op
  /\ emitted' = <<>>
  /\ IF connectionState \in {"connecting", "connected"}
     THEN UNCHANGED <<connectionState, connectionAttempts, serverIndex, ws,
                      connectWaiters>>
     ELSE /\ connectionAttempts < AttemptsCap
          /\ connectWaiters < MaxWaiters
          /\ ~(reconnectTimer = "armed" /\ reconnectLeaked >= MaxLeaked)
          /\ connectionState' = "connecting"
          /\ connectionAttempts' = connectionAttempts + 1
          /\ serverIndex' = (serverIndex + 1) % NumServers
          /\ ws' = "CONNECTING"
          /\ connectWaiters' = connectWaiters + 1

\* the caller calls connect()
Connect ==
  /\ ConnectBody("connect")
  /\ UNCHANGED <<isConnected, isAuthenticated, autoReconnect, maxReconnectAttempts,
                 reconnectDelay, keepAliveInterval, orphanErr, orphanClose,
                 pingInterval, connectionMonitor, pongTimeout, pongLeaked,
                 reconnectTimer, reconnectLeaked, discWaiters, messageQueue,
                 requests, lastDelay>>
  /\ NoQrEvent
  /\ UNCHANGED restVars

\* a reconnect timer fires and calls connect()
ReconnectTimerFires ==
  /\ \/ /\ reconnectTimer = "armed"
        /\ reconnectTimer' = "fired"
        /\ reconnectLeaked' = reconnectLeaked
     \/ /\ reconnectLeaked > 0
        /\ reconnectLeaked' = reconnectLeaked - 1
        /\ reconnectTimer' = reconnectTimer
  /\ ConnectBody("reconnect_timer")
  /\ UNCHANGED <<isConnected, isAuthenticated, autoReconnect, maxReconnectAttempts,
                 reconnectDelay, keepAliveInterval, orphanErr, orphanClose,
                 pingInterval, connectionMonitor, pongTimeout, pongLeaked,
                 discWaiters, messageQueue, requests, lastDelay>>
  /\ NoQrEvent
  /\ UNCHANGED restVars

\* _handleOpen and the once('connected') listeners without the reset of
\* connectionAttempts
_handleOpen_keepsAttempts ==
  /\ ws = "CONNECTING"
  /\ ws' = "OPEN"
  /\ connectionState' = "connected"
  /\ isConnected' = TRUE
  /\ connectionAttempts' = connectionAttempts
  /\ _startKeepAlive
  /\ connectWaiters' = 0
  /\ lastOp' = "open"
  /\ emitted' = <<"connected">>
  /\ UNCHANGED <<isAuthenticated, autoReconnect, maxReconnectAttempts,
                 reconnectDelay, keepAliveInterval, serverIndex, orphanErr,
                 orphanClose, pongLeaked, reconnectLeaked, discWaiters,
                 messageQueue, requests, lastDelay>>
  /\ NoQrEvent
  /\ UNCHANGED restVars

\* the socket opens: _handleOpen, then the once('connected') listeners
\* of the waiting connect() calls
_handleOpen ==
  /\ ws = "CONNECTING"
  /\ ws' = "OPEN"
  /\ connectionState' = "connected"
  /\ isConnected' = TRUE
  /\ connectionAttempts' = 0
  /\ _startKeepAlive
  /\ connectWaiters' = 0
  /\ lastOp' = "open"
  /\ emitted' = <<"connected">>
  /\ UNCHANGED <<isAuthenticated, autoReconnect, maxReconnectAttempts,
                 reconnectDelay, keepAliveInterval, serverIndex, orphanErr,
                 orphanClose, pongLeaked, reconnectLeaked, discWaiters,
                 messageQueue, requests, lastDelay>>
  /\ NoQrEvent
  /\ UNCHANGED restVars

\* _handleConnectionDead without its call of _clearKeepAlive
_handleConnectionDead_keepsTimers(op) ==
  /\ connectionState' = "disconnected"
  /\ isConnected' = FALSE
  /\ ws' = "null"
  /\ pingInterval' = pingInterval
  /\ connectionMonitor' = connectionMonitor
  /\ pongTimeout' = pongTimeout
  /\ emitted' = <<"connection_lost">>
  /\ lastOp' = op
  /\ IF autoReconnect
     THEN /\ reconnectTimer' = "armed"
          /\ lastDelay' = ScheduledDelay
     ELSE /\ reconnectTimer' = reconnectTimer
          /\ lastDelay' = lastDelay

\* _handleConnectionDead that schedules no reconnect
_handleConnectionDead_noReconnect(op) ==
  /\ connectionState' = "disconnected"
  /\ isConnected' = FALSE
  /\ ws' = "null"
  /\ pingInterval' = ClearKeepAlive.pingInterval
  /\ connectionMonitor' = ClearKeepAlive.connectionMonitor
  /\ pongTimeout' = ClearKeepAlive.pongTimeout
  /\ emitted' = <<"connection_lost">>
  /\ lastOp' = op
  /\ reconnectTimer' = ClearKeepAlive.reconnectTimer
  /\ lastDelay' = lastDelay

\* _handleConnectionDead: drop the socket, clear the timers, emit
\* connection_lost and, with autoReconnect, arm the reconnect timer
_handleConnectionDead(op) ==
  /\ connectionState' = "disconnected"
  /\ isConnected' = FALSE
  /\ ws' = "null"
  /\ pingInterval' = ClearKeepAlive.pingInterval
  /\ connectionMonitor' = ClearKeepAlive.connectionMonitor
  /\ pongTimeout' = ClearKeepAlive.pongTimeout
  /\ emitted' = <<"connection_lost">>
  /\ lastOp' = op
  /\ IF autoReconnect
     THEN /\ reconnectTimer' = "armed"
          /\ lastDelay' = ScheduledDelay
     ELSE /\ reconnectTimer' = ClearKeepAlive.reconnectTimer
          /\ lastDelay' = lastDelay

\* the pong-deadline timers that are armed
ArmedPong == pongLeaked + (IF pongTimeout = "armed" THEN 1 ELSE 0)

\* the keep-alive interval fires; a pong-deadline timer armed n ticks ago is
\* still armed only if n keep-alive intervals fit into the pong deadline
PingTick ==
  /\ pingInterval
  /\ IF ws = "OPEN"
     THEN /\ ArmedPong * keepAliveInterval <= PongDeadline
          /\ pongTimeout' = "armed"
          /\ pongLeaked' = pongLeaked + (IF pongTimeout = "armed" THEN 1 ELSE 0)
          /\ lastOp' = "ping"
          /\ emitted' = <<>>
          /\ UNCHANGED <<connectionState, isConnected, ws, pingInterval,
                         connectionMonitor, reconnectTimer, lastDelay>>
     ELSE /\ _handleConnectionDead("ping_dead")
          /\ UNCHANGED pongLeaked
  /\ UNCHANGED <<isAuthenticated, autoReconnect, connectionAttempts,
                 maxReconnectAttempts, reconnectDelay, keepAliveInterval,
                 serverIndex, orphanErr, orphanClose, reconnectLeaked,
                 connectWaiters, discWaiters, messageQueue, requests>>
  /\ NoQrEvent
  /\ UNCHANGED restVars

\* the connection monitor fires; stale is Date.now() - lastActivity
\* exceeding three keep-alive intervals
MonitorFires ==
  /\ connectionMonitor
  /\ \E stale \in BOOLEAN :
       IF stale
       THEN _handleConnectionDead("monitor_dead")
       ELSE /\ lastOp' = "monitor"
            /\ emitted' = <<>>
            /\ UNCHANGED <<connectionState, isConnected, ws, pingInterval,
                           connectionMonitor, pongTimeout, reconnectTimer, lastDelay>>
  /\ UNCHANGED <<isAuthenticated, autoReconnect, connectionAttempts,
                 maxReconnectAttempts, reconnectDelay, keepAliveInterval,
                 serverIndex, orphanErr, orphanClose, pongLeaked, reconnectLeaked,
                 connectWaiters, discWaiters, messageQueue, requests>>
  /\ NoQrEvent

MonitorTick == MonitorFires /\ UNCHANGED restVars

\* the oldest armed pong-deadline timer fires (all have the same delay, so
\* one whose handle was overwritten fires before its successor)
PongTimeoutFires ==
  /\ \/ pongLeaked = 0 /\ pongTimeout = "armed" /\ pongLeaked' = pongLeaked
     \/ pongLeaked > 0 /\ pongLeaked' = pongLeaked - 1
  /\ _handleConnectionDead("pong_timeout")
  /\ UNCHANGED <<isAuthenticated, autoReconnect, connectionAttempts,
                 maxReconnectAttempts, reconnectDelay, keepAliveInterval,
                 serverIndex, orphanErr, orphanClose, reconnectLeaked,
                 connectWaiters, discWaiters, messageQueue, requests>>
  /\ NoQrEvent
  /\ UNCHANGED restVars

\* a pong frame arrives on a socket whose listeners are attached
_handlePong ==
  /\ ws = "OPEN" \/ orphanClose > 0
  /\ pongTimeout' = Cleared(pongTimeout)
  /\ lastOp' = "pong"
  /\ emitted' = <<>>
  /\ UNCHANGED <<connectionState, isConnected, isAuthenticated, autoReconnect,
                 connectionAttempts, maxReconnectAttempts, reconnectDelay,
                 keepAliveInterval, serverIndex, ws, orphanErr, orphanClose,
                 pingInterval, connectionMonitor, pongLeaked, reconnectTimer,
                 reconnectLeaked, connectWaiters, discWaiters, messageQueue,
                 requests, lastDelay>>
  /\ NoQrEvent
  /\ UNCHANGED restVars

\* _handleError then _handleClose of one socket, then the catch blocks of
\* the connect() calls its 'error' rejected
ErrorAndClose(op) ==
  /\ isConnected' = FALSE
  /\ isAuthenticated' = FALSE
  /\ connectWaiters' = 0
  /\ lastOp' = op
  /\ IF connectWaiters > 0
     THEN /\ ConnectCatch(connectWaiters, reconnectTimer)
          /\ emitted' = <<"error", "disconnected">> \o CatchEvents(connectWaiters)
     ELSE /\ emitted' = <<"error", "disconnected">>
          /\ UNCHANGED <<connectionState, reconnectTimer, reconnectLeaked, lastDelay>>

\* the current socket fails: 'error' followed by 'close'
SocketError ==
  /\ ws \in {"CONNECTING", "OPEN"}
  /\ ws' = "CLOSED"
  /\ ErrorAndClose("socket_error")
  /\ UNCHANGED <<autoReconnect, connectionAttempts, maxReconnectAttempts,
                 reconnectDelay, keepAliveInterval, serverIndex, orphanErr,
                 orphanClose, pingInterval, connectionMonitor, pongTimeout,
                 pongLeaked, discWaiters, messageQueue, requests>>
  /\ NoQrEvent
  /\ UNCHANGED restVars

\* a socket that disconnect() terminated while it was connecting reports
\* 'error' and 'close'
OrphanError ==
  /\ orphanErr > 0
  /\ orphanErr' = orphanErr - 1
  /\ ErrorAndClose("orphan_error")
  /\ UNCHANGED <<autoReconnect, connectionAttempts, maxReconnectAttempts,
                 reconnectDelay, keepAliveInterval, serverIndex, ws,
                 orphanClose, pingInterval, connectionMonitor, pongTimeout,
                 pongLeaked, discWaiters, messageQueue, requests>>
  /\ NoQrEvent
  /\ UNCHANGED restVars

\* _handleClose
HandleClose(op) ==
  /\ isConnected' = FALSE
  /\ isAuthenticated' = FALSE
  /\ lastOp' = op
  /\ emitted' = <<"disconnected">>

\* the server closes the current, open socket
_handleClose ==
  /\ ws = "OPEN"
  /\ ws' = "CLOSED"
  /\ HandleClose("close")
  /\ UNCHANGED <<connectionState, autoReconnect, connectionAttempts,
                 maxReconnectAttempts, reconnectDelay, keepAliveInterval,
                 serverIndex, orphanErr, orphanClose, pingInterval,
                 connectionMonitor, pongTimeout, pongLeaked, reconnectTimer,
                 reconnectLeaked, connectWaiters, discWaiters, messageQueue,
                 requests, lastDelay>>
  /\ NoQrEvent
  /\ UNCHANGED restVars

\* a socket that disconnect() closed gracefully reports 'close'
OrphanClose ==
  /\ orphanClose > 0
  /\ orphanClose' = orphanClose - 1
  /\ HandleClose("orphan_close")
  /\ UNCHANGED <<connectionState, autoReconnect, connectionAttempts,
                 maxReconnectAttempts, reconnectDelay, keepAliveInterval,
                 serverIndex, ws, orphanErr, pingInterval,
                 connectionMonitor, pongTimeout, pongLeaked, reconnectTimer,
                 reconnectLeaked, connectWaiters, discWaiters, messageQueue,
                 requests, lastDelay>>
  /\ NoQrEvent
  /\ UNCHANGED restVars

\* the connect-timeout timer of one waiting connect() call fires
ConnectTimeout ==
  /\ connectWaiters > 0
  /\ connectWaiters' = connectWaiters - 1
  /\ ConnectCatch(1, reconnectTimer)
  /\ emitted' = CatchEvents(1)
  /\ lastOp' = "connect_timeout"
  /\ UNCHANGED <<isConnected, isAuthenticated, autoReconnect, connectionAttempts,
                 maxReconnectAttempts, reconnectDelay, keepAliveInterval,
                 serverIndex, ws, orphanErr, orphanClose, pingInterval,
                 connectionMonitor, pongTimeout, pongLeaked, discWaiters,
                 messageQueue, requests>>
  /\ NoQrEvent
  /\ UNCHANGED restVars

\* the statements of disconnect() after the socket was closed or terminated
DisconnectTail ==
  /\ isConnected' = FALSE
  /\ isAuthenticated' = FALSE
  /\ ws' = "null"
  /\ connectionAttempts' = 0

\* the caller calls disconnect(): with an open socket it sends goodbye and
\* suspends for 100 ms, otherwise it runs to its end
DisconnectCall ==
  /\ autoReconnect' = FALSE
  /\ connectionState' = "disconnected"
  /\ _clearKeepAlive
  /\ lastOp' = IF ws = "OPEN" THEN "disconnect_wait" ELSE "disconnect_done"
  /\ emitted' = <<>>
  /\ IF ws = "OPEN"
     THEN /\ discWaiters < MaxWaiters
          /\ discWaiters' = discWaiters + 1
          /\ UNCHANGED <<isConnected, isAuthenticated, ws, connectionAttempts,
                         orphanErr>>
     ELSE /\ IF ws = "CONNECTING"
             THEN orphanErr < MaxOrphans /\ orphanErr' = orphanErr + 1
             ELSE orphanErr' = orphanErr
          /\ DisconnectTail
          /\ UNCHANGED discWaiters
  /\ UNCHANGED <<maxReconnectAttempts, reconnectDelay, keepAliveInterval,
                 serverIndex, orphanClose, pongLeaked, reconnectLeaked,
                 connectWaiters, messageQueue, requests, lastDelay>>

\* disconnect() called by the caller of the manager
disconnect == DisconnectCall /\ NoQrEvent /\ UNCHANGED restVars

\* a suspended disconnect() resumes: this.ws.close(1000, ...) and the tail;
\* with this.ws already null the call throws into its own catch
DisconnectContinue ==
  /\ discWaiters > 0
  /\ discWaiters' = discWaiters - 1
  /\ lastOp' = "disconnect_done"
  /\ emitted' = <<>>
  /\ IF ws = "null"
     THEN UNCHANGED <<isConnected, isAuthenticated, ws, connectionAttempts,
                      orphanErr, orphanClose>>
     ELSE /\ ws = "OPEN" => orphanClose < MaxOrphans
          /\ ws = "CONNECTING" => orphanErr < MaxOrphans
          /\ orphanClose' = orphanClose + (IF ws = "OPEN" THEN 1 ELSE 0)
          /\ orphanErr' = orphanErr + (IF ws = "CONNECTING" THEN 1 ELSE 0)
          /\ DisconnectTail
  /\ UNCHANGED <<connectionState, autoReconnect, maxReconnectAttempts,
                 reconnectDelay, keepAliveInterval, serverIndex, pingInterval,
                 connectionMonitor, pongTimeout, pongLeaked, reconnectTimer,
                 reconnectLeaked, connectWaiters, messageQueue, requests, lastDelay>>

\* the 100 ms wait of a disconnect() called by the caller of the manager ends
DisconnectResume == DisconnectContinue /\ NoQrEvent /\ UNCHANGED restVars

(***************************************************************************)
(* Correlated requests: initializeAuth, loginWithSession, their 30 s       *)
(* timers and the inbound text frames.                                     *)
(***************************************************************************)
\* the request id the next call gets
FreeId(id) ==
  /\ requests[id].state = "none"
  /\ \A j \in ReqIds : j < id => requests[j].state # "none"

\* a settlement that would overwrite the state of a settled promise
Settle_again(reqs, id, outcome) ==
  IF id \in ReqIds /\ reqs[id].state # "none"
  THEN [reqs EXCEPT ![id].state = outcome]
  ELSE reqs

\* promise settlement: only a pending promise changes
Settle(reqs, id, outcome) ==
  IF id \in ReqIds /\ reqs[id].state = "pending"
  THEN [reqs EXCEPT ![id].state = outcome]
  ELSE reqs

\* the caller calls initializeAuth(); tag is getTimestamp().toString().
\* messageQueue.set comes before _sendMessage, which throws unless the
\* socket is open
initializeAuth ==
  \E id \in ReqIds, tag \in Tags :
    /\ FreeId(id)
    /\ IF ws = "OPEN"
       THEN /\ messageQueue' = [messageQueue EXCEPT ![tag] = [desc |-> "_login", owner |-> id]]
            /\ requests' = [requests EXCEPT ![id] =
                 [tag |-> tag, state |-> "pending", timer |-> TRUE]]
       ELSE /\ messageQueue' = [messageQueue EXCEPT ![tag] = [desc |-> "_login", owner |-> 0]]
            /\ requests' = [requests EXCEPT ![id] =
                 [tag |-> tag, state |-> "rejected", timer |-> FALSE]]
    /\ lastOp' = "initializeAuth"
    /\ emitted' = <<>>
    /\ clientId' = ClientIdOf(id)
    /\ qrPayload' = NoPayload
    /\ resolvedWith' = NoResolved
    /\ UNCHANGED <<keysFrom, connectionInfo>>
    /\ UNCHANGED <<connectionState, isConnected, isAuthenticated, autoReconnect,
                   connectionAttempts, maxReconnectAttempts, reconnectDelay,
                   keepAliveInterval, serverIndex, ws, orphanErr, orphanClose,
                   pingInterval, connectionMonitor, pongTimeout, pongLeaked,
                   reconnectTimer, reconnectLeaked, connectWaiters, discWaiters,
                   lastDelay>>
    /\ UNCHANGED restVars

\* the caller calls loginWithSession(); the init message is sent first and
\* throws before messageQueue.set unless the socket is open; tag is loginTag
loginWithSessionCall ==
  \E id \in ReqIds, tag \in Tags :
    /\ FreeId(id)
    /\ IF ws = "OPEN"
       THEN /\ messageQueue' = [messageQueue EXCEPT ![tag] =
                 [desc |-> "_restoresession", owner |-> id]]
            /\ requests' = [requests EXCEPT ![id] =
                 [tag |-> tag, state |-> "pending", timer |-> TRUE]]
       ELSE /\ messageQueue' = messageQueue
            /\ requests' = [requests EXCEPT ![id] =
                 [tag |-> tag, state |-> "rejected", timer |-> FALSE]]
    /\ lastOp' = "loginWithSession"
    /\ emitted' = <<>>
    /\ clientId' = SessionClientId
    /\ keysFrom' = "session"
    /\ connectionInfo' = [connectionInfo EXCEPT !.clientToken = "session",
                                                 !.serverToken = "session"]
    /\ qrPayload' = NoPayload
    /\ resolvedWith' = NoResolved
    /\ UNCHANGED <<connectionState, isConnected, isAuthenticated, autoReconnect,
                   connectionAttempts, maxReconnectAttempts, reconnectDelay,
                   keepAliveInterval, serverIndex, ws, orphanErr, orphanClose,
                   pingInterval, connectionMonitor, pongTimeout, pongLeaked,
                   reconnectTimer, reconnectLeaked, connectWaiters, discWaiters,
                   lastDelay>>

loginWithSession == loginWithSessionCall /\ UNCHANGED restVars

\* the content of an inbound text frame "tag,content":
\*   status200     {"status":200}
\*   status200ref  {"status":200,"ref":"..."}
\*   statusOther   {"status":401}
\*   unparsable    text that is not JSON
\*   conn          ["Conn",{...}]
\*   connBare      ["Conn"]
\*   other         ["Stream"]
FrameKinds ==
  {"status200", "status200ref", "statusOther", "unparsable", "conn", "connBare", "other"}

\* the content holds a comma
HasComma(kind) == kind \in {"status200ref", "conn"}

\* message.split(',', 2) keeps the content up to its first comma only;
\* JSON.parse of what is kept succeeds
Parses(kind) == kind # "unparsable" /\ ~HasComma(kind)

\* response.ref of a parsed response: a content with a "ref" member holds a
\* comma and is never parsed
ResponseRef(kind, ref) == <<>>

\* _handleQueuedMessage for the entry e found under the frame's tag
QueuedOutcome(e, kind) ==
  IF Parses(kind) /\ kind = "status200" THEN "resolved" ELSE "rejected"

\* the content of a frame of each kind, as character codes
\*   status200     {"status":200}
\*   status200ref  {"status":200,"ref":"R"}
\*   statusOther   {"status":401}
\*   unparsable    {"status":
\*   conn          ["Conn",{"secret":"S"}]
\*   connBare      ["Conn"]
\*   other         {}
FrameBody(kind) ==
  [status200 |->
     <<123, 34, 115, 116, 97, 116, 117, 115, 34, 58, 50, 48, 48, 125>>,
   status200ref |->
     <<123, 34, 115, 116, 97, 116, 117, 115, 34, 58, 50, 48, 48, 44, 34, 114, 101, 102, 34, 58, 34, 82, 34, 125>>,
   statusOther |->
     <<123, 34, 115, 116, 97, 116, 117, 115, 34, 58, 52, 48, 49, 125>>,
   unparsable |->
     <<123, 34, 115, 116, 97, 116, 117, 115, 34, 58>>,
   conn |->
     <<91, 34, 67, 111, 110, 110, 34, 44, 123, 34, 115, 101, 99, 114, 101, 116, 34, 58, 34, 83, 34, 125, 93>>,
   connBare |->
     <<91, 34, 67, 111, 110, 110, 34, 93>>,
   other |->
     <<123, 125>>][kind]

\* String.prototype.split(','): the pieces between the commas
RECURSIVE SplitAll(_, _)
SplitAll(text, piece) ==
  IF text = <<>> THEN <<piece>>
  ELSE IF Head(text) = 44 THEN <<piece>> \o SplitAll(Tail(text), <<>>)
  ELSE SplitAll(Tail(text), Append(piece, Head(text)))

\* message.split(',', 2): at most the first two pieces
SplitLimit2(text) ==
  LET all == SplitAll(text, <<>>)
  IN IF Len(all) <= 2 THEN all ELSE SubSeq(all, 1, 2)

\* messageContent of _handleTextMessage for the frame tag + "," + body
MessageContent(tag, kind) ==
  SplitLimit2(ToDecimal(tag) \o <<44>> \o FrameBody(kind))[2]

FrameOp(kind) ==
  [status200 |-> "text_200", status200ref |-> "text_200_ref",
   statusOther |-> "text_status", unparsable |-> "text_unparsable",
   conn |-> "text_conn", connBare |-> "text_conn_bare", other |-> "text_other"][kind]

TextOps ==
  { FrameOp(kind) : kind \in FrameKinds }
  \cup {"conn_authenticated", "conn_hmac_failed", "conn_decrypt_failed", "conn_type_error"}

\* _aesDecrypt calls crypto.createDecipherGCM, which the crypto module does
\* not have: the call throws a TypeError
AesDecryptThrows == TRUE

Zero32 == [i \in 1..32 |-> 0]

\* Buffer.from('WhatsApp Web Keys')
KeysInfo == <<87, 104, 97, 116, 115, 65, 112, 112, 32, 87, 101, 98, 32, 75, 101, 121, 115>>

\* hkdf(inputKeyMaterial, salt, info, length) for length <= 96
hkdf(inputKeyMaterial, salt, info, length) ==
  LET actualSalt == IF Len(salt) > 0 THEN salt ELSE Zero32
      prk == hmacSha256(actualSalt, inputKeyMaterial)
      t1 == hmacSha256(prk, info \o <<1>>)
      t2 == hmacSha256(prk, t1 \o info \o <<2>>)
      t3 == hmacSha256(prk, t2 \o info \o <<3>>)
      blocks == (length + 31) \div 32
      okm == IF blocks <= 1 THEN t1 ELSE IF blocks = 2 THEN t1 \o t2 ELSE t1 \o t2 \o t3
  IN Slice(okm, 0, length)

NoConnData == [defined |-> FALSE, secret |-> <<>>]

\* this.connectionInfo once the assignments that precede the HMAC check of
\* _handleConnectionInfo have run: the tokens, the secret and the shared
\* secret all come from the Conn message
ConnInfoAssigned ==
  [clientToken |-> "conn", serverToken |-> "conn", secret |-> "conn",
   sharedSecret |-> "conn"]

\* _handleConnectionInfo that marks the manager authenticated before it
\* reads the message
_handleConnectionInfo_eager(connData, sharedSecret) ==
  LET secret == connData.secret
      sharedSecretExpanded == hkdf(sharedSecret, Zero32, KeysInfo, 80)
      hmacValidation ==
        hmacSha256(Slice(sharedSecretExpanded, 32, 64),
                   Slice(secret, 0, 32) \o Slice(secret, 64, Len(secret)))
      failure(op, info) ==
        [keysFrom |-> keysFrom, isAuthenticated |-> TRUE,
         connectionInfo |-> info,
         keepAlive |-> FALSE, events |-> <<"auth_failure">>, op |-> op]
      assigned == ConnInfoAssigned
  IN IF ~connData.defined THEN failure("conn_type_error", connectionInfo)
     ELSE IF hmacValidation # Slice(secret, 32, 64) THEN failure("conn_hmac_failed", assigned)
     ELSE IF AesDecryptThrows THEN failure("conn_decrypt_failed", assigned)
     ELSE [keysFrom |-> "conn", isAuthenticated |-> TRUE, keepAlive |-> TRUE,
           connectionInfo |-> ConnInfoAssigned,
           events |-> <<"authenticated">>, op |-> "conn_authenticated"]

\* _handleConnectionInfo that installs the keys without validating the HMAC
_handleConnectionInfo_trusting(connData, sharedSecret) ==
  IF ~connData.defined
  THEN [keysFrom |-> keysFrom, isAuthenticated |-> isAuthenticated,
        connectionInfo |-> connectionInfo,
        keepAlive |-> FALSE, events |-> <<"auth_failure">>, op |-> "conn_type_error"]
  ELSE [keysFrom |-> "conn", isAuthenticated |-> TRUE, keepAlive |-> TRUE,
           connectionInfo |-> ConnInfoAssigned,
        events |-> <<"authenticated">>, op |-> "conn_authenticated"]

\* _handleConnectionInfo(connData); sharedSecret is what _computeSharedSecret
\* (crypto.randomBytes(32)) returns in this call
_handleConnectionInfo(connData, sharedSecret) ==
  LET secret == connData.secret
      sharedSecretExpanded == hkdf(sharedSecret, Zero32, KeysInfo, 80)
      hmacValidation ==
        hmacSha256(Slice(sharedSecretExpanded, 32, 64),
                   Slice(secret, 0, 32) \o Slice(secret, 64, Len(secret)))
      failure(op, info) ==
        [keysFrom |-> keysFrom, isAuthenticated |-> isAuthenticated,
         connectionInfo |-> info,
         keepAlive |-> FALSE, events |-> <<"auth_failure">>, op |-> op]
      assigned == ConnInfoAssigned
  IN IF ~connData.defined THEN failure("conn_type_error", connectionInfo)
     ELSE IF hmacValidation # Slice(secret, 32, 64) THEN failure("conn_hmac_failed", assigned)
     ELSE IF AesDecryptThrows THEN failure("conn_decrypt_failed", assigned)
     ELSE [keysFrom |-> "conn", isAuthenticated |-> TRUE, keepAlive |-> TRUE,
           connectionInfo |-> ConnInfoAssigned,
           events |-> <<"authenticated">>, op |-> "conn_authenticated"]

\* _handleTextMessage: a frame whose tag is pending goes to
\* _handleQueuedMessage, any other frame to JSON.parse and _handleJsonMessage
TextFrame ==
  \E tag \in Tags, kind \in FrameKinds :
  \E ref \in Refs,
     publicKey \in (IF kind = "status200" THEN PublicKeys ELSE {<<>>}) :
    /\ ws = "OPEN" \/ orphanClose > 0
    /\ IF messageQueue[tag] # NoEntry
       THEN LET e == messageQueue[tag]
                outcome == QueuedOutcome(e, kind)
                qr == outcome = "resolved" /\ e.desc = "_login"
                qrContent == QrContent(ResponseRef(kind, ref), publicKey)
            IN /\ messageQueue' = [messageQueue EXCEPT ![tag] = NoEntry]
               /\ requests' = Settle(requests, e.owner, outcome)
               /\ isAuthenticated' =
                    IF outcome = "resolved" /\ e.desc = "_restoresession"
                    THEN TRUE ELSE isAuthenticated
               /\ emitted' =
                    IF outcome # "resolved" THEN <<>>
                    ELSE IF e.desc = "_login" THEN <<"qr">> ELSE <<"authenticated">>
               /\ qrPayload' = IF qr THEN qrContent ELSE NoPayload
               /\ resolvedWith' =
                    IF qr /\ e.owner \in ReqIds /\ requests[e.owner].state = "pending"
                    THEN [NoResolved EXCEPT ![e.owner] = qrContent]
                    ELSE NoResolved
               /\ lastOp' = FrameOp(kind)
               /\ UNCHANGED <<keysFrom, connectionInfo, pingInterval,
                              connectionMonitor, pongTimeout, reconnectTimer>>
       ELSE IF kind = "connBare"
       THEN LET out == _handleConnectionInfo(NoConnData, Zero32)
            IN /\ keysFrom' = out.keysFrom
               /\ connectionInfo' = out.connectionInfo
               /\ isAuthenticated' = out.isAuthenticated
               /\ IF out.keepAlive THEN _startKeepAlive
                  ELSE UNCHANGED <<pingInterval, connectionMonitor, pongTimeout,
                                   reconnectTimer>>
               /\ emitted' = out.events \o <<"json_message">>
               /\ lastOp' = FrameOp(kind)
               /\ qrPayload' = NoPayload
               /\ resolvedWith' = NoResolved
               /\ UNCHANGED <<messageQueue, requests>>
       ELSE /\ emitted' = IF Parses(kind) THEN <<"json_message">> ELSE <<>>
            /\ lastOp' = FrameOp(kind)
            /\ qrPayload' = NoPayload
            /\ resolvedWith' = NoResolved
            /\ UNCHANGED <<messageQueue, requests, isAuthenticated, keysFrom, connectionInfo,
                           pingInterval, connectionMonitor, pongTimeout,
                           reconnectTimer>>
    /\ UNCHANGED <<connectionState, isConnected, autoReconnect,
                   connectionAttempts, maxReconnectAttempts, reconnectDelay,
                   keepAliveInterval, serverIndex, ws, orphanErr, orphanClose,
                   pongLeaked, reconnectLeaked, connectWaiters, discWaiters,
                   lastDelay, clientId>>

_handleTextMessage == TextFrame /\ UNCHANGED restVars

\* the 30 s timer of request id fires: if its tag has an entry the entry is
\* deleted and the request's own promise rejected
RequestTimeout ==
  \E id \in ReqIds :
    /\ requests[id].timer
    /\ LET tag == requests[id].tag
           fired == [requests EXCEPT ![id].timer = FALSE]
       IN IF messageQueue[tag] # NoEntry
          THEN /\ messageQueue' = [messageQueue EXCEPT ![tag] = NoEntry]
               /\ requests' = Settle(fired, id, "rejected_timeout")
          ELSE /\ messageQueue' = messageQueue
               /\ requests' = fired
    /\ lastOp' = "request_timeout"
    /\ emitted' = <<>>
    /\ UNCHANGED <<connectionState, isConnected, isAuthenticated, autoReconnect,
                   connectionAttempts, maxReconnectAttempts, reconnectDelay,
                   keepAliveInterval, serverIndex, ws, orphanErr, orphanClose,
                   pingInterval, connectionMonitor, pongTimeout, pongLeaked,
                   reconnectTimer, reconnectLeaked, connectWaiters, discWaiters,
                   lastDelay>>
    /\ NoQrEvent
    /\ UNCHANGED restVars

(***************************************************************************)
(* ProductionWhatsAppClient: the outbound message queue, destroy() and     *)
(* logout() on top of the manager.                                         *)
(***************************************************************************)
MaxMsg == 2

MsgIds == 1..MaxMsg

\* the session.save calls one run keeps awaiting at a time
MaxSaves == 1

\* the constructor: _startMessageProcessor arms the interval; the session
\* store holds the credentials of an earlier login
ClientFields ==
  /\ clReady = FALSE
  /\ clAuth = FALSE
  /\ rateLimitTimer = TRUE
  /\ outQueue = <<>>
  /\ outPromise = [m \in MsgIds |-> "none"]
  /\ clWaiting = "none"
  /\ clOp = "new"
  /\ clSaves = <<>>
  /\ clSession = "credentials"
  /\ sessionData = "null"

ClientInit == ClientFields /\ clState = "disconnected"

\* initialize() up to its await of websocket.connect(), and the listener of
\* the manager's 'connected' event
ClientOpened == ClientFields /\ clState = "connected"

\* one listener of _setupInternalEventHandlers run on event e; the
\* 'authenticated' listener runs up to its await of session.save(payload)
Listen(c, e, payload) ==
  CASE e = "connected" -> [c EXCEPT !.state = "connected"]
    [] e = "authenticated" ->
         [c EXCEPT !.auth = TRUE, !.state = "authenticated", !.data = payload,
                   !.saves = Append(@, payload)]
    [] e = "connection_lost" -> [c EXCEPT !.state = "connecting"]
    [] OTHER -> c

RECURSIVE Heard(_, _, _)
Heard(c, events, payload) ==
  IF events = <<>> THEN c
  ELSE Heard(Listen(c, Head(events), payload), Tail(events), payload)

\* the listeners run inside the emit calls of the manager's handler
ClientHears(payload) ==
  LET before == [state |-> clState, auth |-> clAuth, saves |-> clSaves,
                 data |-> sessionData]
      c == Heard(before, emitted', payload)
  IN /\ Len(c.saves) <= MaxSaves
     /\ clState' = c.state
     /\ clAuth' = c.auth
     /\ clSaves' = c.saves
     /\ sessionData' = c.data
     /\ clOp' = IF c = before THEN clOp ELSE "listener"
     /\ UNCHANGED <<clReady, rateLimitTimer, outQueue, outPromise, clWaiting, clSession>>

\* a session.save(sessionData) that the 'authenticated' listener awaits
\* completes: the listener emits 'authenticated' and, through
\* _finalizeInitialization, 'ready'; when save throws the listener ends
SaveDone ==
  \E i \in DOMAIN clSaves, ok \in BOOLEAN :
    /\ clSaves' = SubSeq(clSaves, 1, i - 1) \o SubSeq(clSaves, i + 1, Len(clSaves))
    /\ IF ok
       THEN /\ clSession' = clSaves[i]
            /\ clState' = "ready"
            /\ clReady' = TRUE
            /\ clOp' = "ready"
       ELSE /\ clOp' = "save_failed"
            /\ UNCHANGED <<clSession, clState, clReady>>
    /\ UNCHANGED <<clAuth, rateLimitTimer, outQueue, outPromise, clWaiting, sessionData>>
    /\ UNCHANGED <<wsVars, authVars, codecVars, cryptoVars, sideVars>>

\* sendMessage(): _checkReady throws unless ready and authenticated,
\* otherwise _queueMessage pushes the message and returns its promise
sendMessage ==
  \E m \in MsgIds :
    /\ outPromise[m] = "none"
    /\ \A j \in MsgIds : j < m => outPromise[j] # "none"
    /\ IF clReady /\ clAuth
       THEN /\ outQueue' = Append(outQueue, m)
            /\ outPromise' = [outPromise EXCEPT ![m] = "pending"]
       ELSE /\ outQueue' = outQueue
            /\ outPromise' = [outPromise EXCEPT ![m] = "rejected"]
    /\ clOp' = "send"
    /\ UNCHANGED <<clReady, clAuth, rateLimitTimer, clWaiting, clState, clSaves, clSession,
                 sessionData>>
    /\ UNCHANGED <<wsVars, authVars, codecVars, cryptoVars, sideVars>>

\* the rate-limit interval fires: _processMessageQueue shifts one message,
\* awaits _sendMessageInternal (an empty async function) and resolves
_processMessageQueue ==
  /\ rateLimitTimer
  /\ IF outQueue = <<>> \/ ~clReady
     THEN UNCHANGED <<outQueue, outPromise>>
     ELSE /\ outQueue' = Tail(outQueue)
          /\ outPromise' = [outPromise EXCEPT ![Head(outQueue)] = "resolved"]
  /\ clOp' = "process"
  /\ UNCHANGED <<clReady, clAuth, rateLimitTimer, clWaiting, clState, clSaves, clSession,
                 sessionData>>
  /\ UNCHANGED <<wsVars, authVars, codecVars, cryptoVars, sideVars>>

\* _resetState: the queue is replaced by an empty array
_resetState ==
  /\ clState' = "disconnected"
  /\ clReady' = FALSE
  /\ clAuth' = FALSE
  /\ outQueue' = <<>>
  /\ outPromise' = outPromise
  /\ sessionData' = "null"

\* destroy() (stop = TRUE, clearInterval first) or logout() calls
\* websocket.disconnect(); once that has returned destroy() runs
\* _resetState and logout() awaits session.clear()
ClientShutdown(stop, name) ==
  /\ clWaiting = "none"
  /\ discWaiters = 0
  /\ DisconnectCall
  /\ rateLimitTimer' = IF stop THEN FALSE ELSE rateLimitTimer
  /\ IF ws = "OPEN"
     THEN /\ clWaiting' = name
          /\ clOp' = name
          /\ UNCHANGED <<clReady, clAuth, outQueue, outPromise, clState, sessionData>>
     ELSE IF stop
     THEN /\ clWaiting' = "none"
          /\ clOp' = "destroy_done"
          /\ _resetState
     ELSE /\ clWaiting' = "clearing"
          /\ clOp' = name
          /\ UNCHANGED <<clReady, clAuth, outQueue, outPromise, clState, sessionData>>
  /\ UNCHANGED <<clSaves, clSession>>
  /\ NoQrEvent
  /\ UNCHANGED <<codecVars, cryptoVars, sideVars>>

destroy == ClientShutdown(TRUE, "destroy")

logout == ClientShutdown(FALSE, "logout")

\* websocket.disconnect() resumes after its 100 ms wait and returns to the
\* destroy() or logout() that awaits it
ShutdownResume ==
  /\ clWaiting \in {"destroy", "logout"}
  /\ DisconnectContinue
  /\ IF clWaiting = "destroy"
     THEN /\ clWaiting' = "none"
          /\ clOp' = "destroy_done"
          /\ _resetState
     ELSE /\ clWaiting' = "clearing"
          /\ UNCHANGED <<clOp, clReady, clAuth, outQueue, outPromise, clState, sessionData>>
  /\ UNCHANGED <<rateLimitTimer, clSaves, clSession>>
  /\ NoQrEvent
  /\ UNCHANGED <<codecVars, cryptoVars, sideVars>>

\* the session.clear() that logout() awaits completes: _resetState and
\* 'logged_out', or the AuthError of clear() thrown to the caller
ClearDone ==
  /\ clWaiting = "clearing"
  /\ clWaiting' = "none"
  /\ \E ok \in BOOLEAN :
       IF ok
       THEN /\ clSession' = "cleared"
            /\ clOp' = "logout_done"
            /\ _resetState
       ELSE /\ clOp' = "logout_failed"
            /\ UNCHANGED <<clSession, clReady, clAuth, outQueue, outPromise, clState, sessionData>>
  /\ UNCHANGED <<rateLimitTimer, clSaves>>
  /\ UNCHANGED <<wsVars, authVars, codecVars, cryptoVars, sideVars>>

(***************************************************************************)
(* Inputs of whatsappDecrypt and of _handleConnectionInfo.                  *)
(***************************************************************************)
MacKeys == { <<1, 2, 3>>, <<9, 9>> }

EncKey == <<5, 5, 5>>

DataPool ==
  { <<>>, <<7>>, [i \in 1..16 |-> i], [i \in 1..17 |-> 3 * i], [i \in 1..32 |-> 255 - i] }

\* the first byte of b changed
FlipFirst(b) == [b EXCEPT ![1] = (b[1] + 1) % 256]

\* the last byte of b changed
FlipLast(b) == [b EXCEPT ![Len(b)] = (b[Len(b)] + 1) % 256]

\* blobs as they can arrive: sealed under one of the keys, tampered in the
\* tag or in the data, or cut short
Blobs ==
  LET sealed == { hmacSha256(k, d) \o d : k \in MacKeys, d \in DataPool }
  IN sealed
     \cup { FlipFirst(b) : b \in sealed }
     \cup { FlipLast(b) : b \in sealed }
     \cup { SubSeq(b, 1, n) : b \in sealed, n \in {0, 10, 31} }

NoResult == [thrown |-> FALSE, error |-> "", aes |-> FALSE, value |-> <<>>]

CryptoIdle == kpc = "idle" /\ kKey = <<>> /\ kBlob = <<>> /\ kOut = NoResult

\* what _computeSharedSecret (crypto.randomBytes(32)) can return
SharedSecrets == { [i \in 1..32 |-> (k + i) % 256] : k \in {0, 100} }

SecretTails == { <<>>, [i \in 1..16 |-> 2 * i] }

\* the secret of a Conn message whose bytes 32..63 are the HMAC that
\* _handleConnectionInfo computes when _computeSharedSecret returns shared
SealedSecret(shared, pub, tail) ==
  pub \o hmacSha256(Slice(hkdf(shared, Zero32, KeysInfo, 80), 32, 64), pub \o tail) \o tail

\* secrets as they can arrive: sealed for one of the shared secrets,
\* tampered in the HMAC, the key or the tail, or cut short
ConnSecrets ==
  LET sealed == { SealedSecret(sh, pub, tail) :
                    sh \in SharedSecrets, pub \in PublicKeys, tail \in SecretTails }
  IN sealed
     \cup { [b EXCEPT ![33] = (b[33] + 1) % 256] : b \in sealed }
     \cup { FlipFirst(b) : b \in sealed }
     \cup { FlipLast(b) : b \in sealed }
     \cup { SubSeq(b, 1, n) : b \in sealed, n \in {0, 40, 63} }

\* the arguments of one call: of whatsappDecrypt(EncKey, kKey, kBlob), or of
\* _handleConnectionInfo({secret: kBlob}) in which _computeSharedSecret
\* returns kKey
CryptoInit ==
  /\ \/ kpc = "input" /\ kKey \in MacKeys /\ kBlob \in Blobs
     \/ kpc = "conn_input" /\ kKey \in SharedSecrets /\ kBlob \in ConnSecrets
  /\ kOut = NoResult

\* the macKey of the persisted session that loginWithSession installs
SessionMacKey == <<1, 2, 3>>

\* what follows the first comma of an inbound binary frame
BinaryContents == { b \in Blobs : Len(b) <= HmacLen + 1 }

\* _handleBinaryMessage(data): returns unless authenticated and unless the
\* frame holds a comma, then whatsappDecrypt and binaryHandler.decode; every
\* throw is caught and logged.  createHmac throws on the null macKey of a
\* manager that has no keys
_handleBinaryMessage ==
  \E hasComma \in BOOLEAN, messageContent \in BinaryContents :
    /\ ws = "OPEN" \/ orphanClose > 0
    /\ LET decryptedData ==
             IF keysFrom = "none"
             THEN [thrown |-> TRUE, error |-> "TypeError", aes |-> FALSE, value |-> <<>>]
             ELSE whatsappDecrypt(EncKey, SessionMacKey, messageContent)
           parsedData == decode(decryptedData.value)
           op == IF ~isAuthenticated THEN "binary_unauthenticated"
                 ELSE IF ~hasComma THEN "binary_no_comma"
                 ELSE IF decryptedData.thrown THEN "binary_decrypt_failed"
                 ELSE IF ~parsedData.ok THEN "binary_decode_failed"
                 ELSE "binary_message"
       IN /\ lastOp' = op
          /\ emitted' = IF op = "binary_message" THEN <<"binary_message">> ELSE <<>>
    /\ UNCHANGED <<connectionState, isConnected, isAuthenticated, autoReconnect,
                   connectionAttempts, maxReconnectAttempts, reconnectDelay,
                   keepAliveInterval, serverIndex, ws, orphanErr, orphanClose,
                   pingInterval, connectionMonitor, pongTimeout, pongLeaked,
                   reconnectTimer, reconnectLeaked, connectWaiters, discWaiters,
                   messageQueue, requests, lastDelay>>
    /\ NoQrEvent
    /\ UNCHANGED restVars

\* the caller runs whatsappDecrypt(encKey, kKey, kBlob)
Decrypt ==
  /\ kpc = "input"
  /\ kpc' = "done"
  /\ kOut' = whatsappDecrypt(EncKey, kKey, kBlob)
  /\ UNCHANGED <<kKey, kBlob>>
  /\ UNCHANGED <<wsVars, authVars, codecVars, clientVars, sideVars>>

\* _handleJsonMessage hands the Conn message {secret: kBlob} to
\* _handleConnectionInfo and emits 'json_message'
HandleConn ==
  /\ kpc = "conn_input"
  /\ kpc' = "conn_done"
  /\ LET out == _handleConnectionInfo([defined |-> TRUE, secret |-> kBlob], kKey)
     IN /\ keysFrom' = out.keysFrom
        /\ connectionInfo' = out.connectionInfo
        /\ isAuthenticated' = out.isAuthenticated
        /\ IF out.keepAlive THEN _startKeepAlive
           ELSE UNCHANGED <<pingInterval, connectionMonitor, pongTimeout, reconnectTimer>>
        /\ emitted' = out.events \o <<"json_message">>
        /\ lastOp' = out.op
  /\ qrPayload' = NoPayload
  /\ resolvedWith' = NoResolved
  /\ UNCHANGED <<connectionState, isConnected, autoReconnect,
                 connectionAttempts, maxReconnectAttempts, reconnectDelay,
                 keepAliveInterval, serverIndex, ws, orphanErr, orphanClose,
                 pongLeaked, reconnectLeaked, connectWaiters, discWaiters,
                 lastDelay, clientId, messageQueue, requests>>
  /\ UNCHANGED <<kKey, kBlob, kOut>>
  /\ UNCHANGED <<codecVars, clientVars, sideVars>>

(***************************************************************************)
(* Legacy WebSocketManager (src/src/websocket.js): connect() and the       *)
(* reconnection it awaits.  A chain is one outermost call and the          *)
(* _scheduleReconnect / connect() calls nested in it; chain 1 is the       *)
(* caller's connect(), the others are the _scheduleReconnect() calls that  *)
(* _handleClose starts without awaiting them.                              *)
(***************************************************************************)
MaxChains == 2

Chains == 1..MaxChains

\* options.maxRetries || 3
DefaultMaxRetries == 3

LegacyMaxChoices == {1, 2}

\* pc: "idle" | "establish" (awaiting _establishConnection) | "sleep"
\* (awaiting sleep(delay) in _scheduleReconnect); nested: the innermost
\* call is inside a _scheduleReconnect, which catches what it throws
IdleChain == [pc |-> "idle", nested |-> FALSE]

LegacyFields ==
  /\ lgState = "disconnected"
  /\ isConnecting = FALSE
  /\ reconnectAttempts = 0
  /\ lgSock = "none"
  /\ lgChains = [c \in Chains |-> IdleChain]
  /\ lgCaller = "none"
  /\ lgSettledOpen = FALSE
  /\ lgOp = "new"
  /\ lgDisconnected = FALSE

LegacyInit == LegacyFields /\ lgMaxAttempts \in LegacyMaxChoices

LegacyIdle == LegacyFields /\ lgMaxAttempts = DefaultMaxRetries

\* options.rateLimit of RealWhatsAppClient when the caller passes none
rateLimit == [messages |-> 20, interval |-> 60000]

\* Math.ceil(a / b) for positive integers
Ceil(a, b) == (a + b - 1) \div b

\* the delay of the setTimeout _processMessageQueue arms when a dispatch settles
DelayPerMessage == Ceil(rateLimit.interval, rateLimit.messages)

\* the period of the interval _startRateLimiting arms
PollMs == 1000

MaxTime == 6000
MaxEnqueued == 3

\* RealWhatsAppClient right after _finalizeInitialization: ready, interval armed
SchedIdle ==
  /\ rlNow = 0
  /\ rlQueued = 0
  /\ messagingActive = FALSE
  /\ rlTimeouts = <<>>
  /\ rlPollDue = FALSE
  /\ rlSent = 0
  /\ rlInFlight = 0
  /\ rlLastStart = -1
  /\ rlGap = -1
  /\ rlOp = "ready"

\* no dispatch of the production client's queue has started
QueueIdle ==
  /\ outActive = FALSE
  /\ outCurrent = 0
  /\ outLog = <<>>

SideIdle == LegacyIdle /\ SchedIdle /\ QueueIdle

\* the caller's promise once the innermost connect() of chain c returned
\* (thrown = FALSE) or threw: _scheduleReconnect catches what the connect()
\* it awaits throws, so only a throw of the outermost call rejects
CallerAfter(c, thrown, open) ==
  IF c # 1 THEN [caller |-> lgCaller, open |-> lgSettledOpen]
  ELSE IF thrown /\ ~lgChains[c].nested THEN [caller |-> "rejected", open |-> FALSE]
  ELSE [caller |-> "resolved", open |-> open]

\* connect() entered by chain c: returns at once while isConnecting or
\* CONNECTED, otherwise starts _establishConnection
ConnectEntered(c, nested) ==
  IF isConnecting \/ lgState = "connected"
  THEN LET after == CallerAfter(c, FALSE, lgSock = "open" /\ lgState = "connected")
       IN /\ lgChains' = [lgChains EXCEPT ![c] = IdleChain]
          /\ lgCaller' = after.caller
          /\ lgSettledOpen' = after.open
          /\ UNCHANGED <<isConnecting, lgSock>>
  ELSE /\ isConnecting' = TRUE
       /\ lgSock' = "connecting"
       /\ lgChains' = [lgChains EXCEPT ![c] = [pc |-> "establish", nested |-> nested]]
       /\ lgCaller' = IF c = 1 THEN "pending" ELSE lgCaller
       /\ lgSettledOpen' = IF c = 1 THEN FALSE ELSE lgSettledOpen

\* the caller calls connect()
LegacyConnect ==
  /\ lgChains[1].pc = "idle"
  /\ ConnectEntered(1, FALSE)
  /\ lgOp' = "connect"
  /\ lgDisconnected' = FALSE
  /\ UNCHANGED <<lgState, reconnectAttempts, lgMaxAttempts>>
  /\ UNCHANGED <<wsVars, authVars, codecVars, clientVars, cryptoVars, schedVars, queueVars>>

\* the socket opens: the 'open' listener sets CONNECTED and resolves
\* _establishConnection, connect() resets the attempts and returns
LegacyOpen ==
  \E c \in Chains :
    /\ lgChains[c].pc = "establish"
    /\ lgSock = "connecting"
    /\ lgSock' = "open"
    /\ lgState' = "connected"
    /\ isConnecting' = FALSE
    /\ reconnectAttempts' = 0
    /\ LET after == CallerAfter(c, FALSE, TRUE)
       IN /\ lgChains' = [lgChains EXCEPT ![c] = IdleChain]
          /\ lgCaller' = after.caller
          /\ lgSettledOpen' = after.open
    /\ lgOp' = "open"
    /\ UNCHANGED <<lgMaxAttempts, lgDisconnected>>
    /\ UNCHANGED <<wsVars, authVars, codecVars, clientVars, cryptoVars, schedVars, queueVars>>

\* _establishConnection rejects (socket error or the 30 s timeout) and the
\* socket closes.  After an error the 'close' listener runs before the
\* catch block of connect() (closeFirst), after the timeout it runs later;
\* _handleClose starts a _scheduleReconnect of its own when
\* reconnectAttempts is 0.  The catch block awaits _scheduleReconnect while
\* attempts are left and throws ConnectionError otherwise
LegacyFail ==
  \E c \in Chains, closeFirst \in BOOLEAN :
    /\ lgChains[c].pc = "establish"
    /\ lgSock = "connecting"
    /\ lgSock' = "closed"
    /\ lgState' = "disconnected"
    /\ isConnecting' = FALSE
    /\ LET spawn == closeFirst /\ reconnectAttempts = 0
           afterClose == IF spawn THEN reconnectAttempts + 1 ELSE reconnectAttempts
           retry == afterClose < lgMaxAttempts
           after == CallerAfter(c, TRUE, FALSE)
       IN /\ \E d \in Chains \ {1} :
               /\ spawn => (d # c /\ lgChains[d].pc = "idle")
               /\ ~spawn => d = MaxChains
               /\ lgChains' =
                    [x \in Chains |->
                       IF x = c
                       THEN (IF retry THEN [pc |-> "sleep", nested |-> TRUE]
                             ELSE IdleChain)
                       ELSE IF spawn /\ x = d THEN [pc |-> "sleep", nested |-> TRUE]
                       ELSE lgChains[x]]
          /\ reconnectAttempts' = IF retry THEN afterClose + 1 ELSE afterClose
          /\ lgCaller' = IF retry THEN lgCaller ELSE after.caller
          /\ lgSettledOpen' = IF retry THEN lgSettledOpen ELSE after.open
    /\ lgOp' = "fail"
    /\ UNCHANGED <<lgMaxAttempts, lgDisconnected>>
    /\ UNCHANGED <<wsVars, authVars, codecVars, clientVars, cryptoVars, schedVars, queueVars>>

\* sleep(delay) of a _scheduleReconnect ends and it awaits connect()
LegacyWake ==
  \E c \in Chains :
    /\ lgChains[c].pc = "sleep"
    /\ ConnectEntered(c, lgChains[c].nested)
    /\ lgOp' = "wake"
    /\ UNCHANGED <<lgState, reconnectAttempts, lgMaxAttempts, lgDisconnected>>
    /\ UNCHANGED <<wsVars, authVars, codecVars, clientVars, cryptoVars, schedVars, queueVars>>

\* the server closes the open socket (code 1006): _handleClose sets
\* DISCONNECTED and, reconnectAttempts being 0, starts _scheduleReconnect
LegacyClose ==
  /\ lgSock = "open"
  /\ lgSock' = "closed"
  /\ lgState' = "disconnected"
  /\ IF reconnectAttempts = 0
     THEN \E d \in Chains \ {1} :
            /\ lgChains[d].pc = "idle"
            /\ lgChains' = [lgChains EXCEPT ![d] = [pc |-> "sleep", nested |-> TRUE]]
            /\ reconnectAttempts' = 1
     ELSE UNCHANGED <<lgChains, reconnectAttempts>>
  /\ lgOp' = "close"
  /\ UNCHANGED <<isConnecting, lgMaxAttempts, lgCaller, lgSettledOpen, lgDisconnected>>
  /\ UNCHANGED <<wsVars, authVars, codecVars, clientVars, cryptoVars, schedVars, queueVars>>

\* the caller calls disconnect(): _cleanup clears the heartbeat timers, an
\* open socket is closed with code 1000 (its _handleClose schedules no
\* reconnect), the state becomes DISCONNECTED.  A socket that is still
\* connecting and a _scheduleReconnect that sleeps are left alone
LegacyDisconnect ==
  /\ lgSock' = IF lgSock = "open" THEN "closed" ELSE lgSock
  /\ lgState' = "disconnected"
  /\ lgDisconnected' = TRUE
  /\ lgOp' = "disconnect"
  /\ UNCHANGED <<isConnecting, reconnectAttempts, lgMaxAttempts, lgChains, lgCaller,
                 lgSettledOpen>>
  /\ UNCHANGED <<wsVars, authVars, codecVars, clientVars, cryptoVars, schedVars, queueVars>>

NextLegacy ==
  \/ LegacyConnect
  \/ LegacyOpen
  \/ LegacyFail
  \/ LegacyWake
  \/ LegacyClose
  \/ LegacyDisconnect

InitLegacy ==
  WsInit /\ CodecIdle /\ ClientInit /\ CryptoIdle /\ LegacyInit /\ SchedIdle /\ QueueIdle

SpecLegacy == InitLegacy /\ [][NextLegacy]_vars

(***************************************************************************)
(* The outbound scheduler of RealWhatsAppClient (src/src/contacts.js).     *)
(* Time advances in steps of the 1000 ms interval; an enqueue or the       *)
(* settling of a message function can happen at any instant.               *)
(***************************************************************************)
\* the fields after _processMessageQueue() ran up to its first await
ProcessQueue(queued) ==
  IF messagingActive \/ queued = 0
    THEN /\ rlQueued' = queued
         /\ UNCHANGED <<messagingActive, rlInFlight, rlLastStart, rlGap>>
    ELSE /\ messagingActive' = TRUE
         /\ rlQueued' = queued - 1
         /\ rlInFlight' = rlInFlight + 1
         /\ rlLastStart' = rlNow
         /\ rlGap' = IF rlLastStart = -1 THEN -1 ELSE rlNow - rlLastStart

SchedFrame ==
  UNCHANGED <<codecVars, wsVars, authVars, clientVars, cryptoVars, legacyVars, queueVars>>

\* _queueMessage: push, then _processMessageQueue() at once
_queueMessage ==
  /\ rlSent < MaxEnqueued
  /\ rlSent' = rlSent + 1
  /\ ProcessQueue(rlQueued + 1)
  /\ rlOp' = "queue"
  /\ UNCHANGED <<rlNow, rlTimeouts, rlPollDue>>
  /\ SchedFrame

\* the awaited message function settles: the finally block of _processMessageQueue
DispatchSettles ==
  /\ rlInFlight > 0
  /\ rlInFlight' = rlInFlight - 1
  /\ messagingActive' = FALSE
  /\ rlTimeouts' = Append(rlTimeouts, rlNow + DelayPerMessage)
  /\ rlOp' = "settled"
  /\ UNCHANGED <<rlNow, rlQueued, rlPollDue, rlSent, rlLastStart, rlGap>>
  /\ SchedFrame

\* the callback of a setTimeout armed by the finally block
TimeoutFires ==
  /\ \E i \in DOMAIN rlTimeouts :
       /\ rlTimeouts[i] <= rlNow
       /\ rlTimeouts' = [j \in 1..(Len(rlTimeouts) - 1) |->
                           IF j < i THEN rlTimeouts[j] ELSE rlTimeouts[j + 1]]
  /\ ProcessQueue(rlQueued)
  /\ rlOp' = "timeout"
  /\ UNCHANGED <<rlNow, rlPollDue, rlSent>>
  /\ SchedFrame

\* the callback of the interval armed by _startRateLimiting
_startRateLimiting ==
  /\ rlPollDue
  /\ rlPollDue' = FALSE
  /\ ProcessQueue(rlQueued)
  /\ rlOp' = "poll"
  /\ UNCHANGED <<rlNow, rlTimeouts, rlSent>>
  /\ SchedFrame

\* 1000 ms pass; every timer that was due has run
TimePasses ==
  /\ rlNow + PollMs <= MaxTime
  /\ ~rlPollDue
  /\ \A i \in DOMAIN rlTimeouts : rlTimeouts[i] > rlNow
  /\ rlNow' = rlNow + PollMs
  /\ rlPollDue' = TRUE
  /\ rlOp' = "time"
  /\ UNCHANGED <<rlQueued, messagingActive, rlTimeouts, rlSent, rlInFlight,
                 rlLastStart, rlGap>>
  /\ SchedFrame

NextSched ==
  \/ _queueMessage
  \/ DispatchSettles
  \/ TimeoutFires
  \/ _startRateLimiting
  \/ TimePasses

InitSched ==
  WsInit /\ CodecIdle /\ ClientInit /\ CryptoIdle /\ LegacyIdle /\ SchedIdle /\ QueueIdle

SpecSched == InitSched /\ [][NextSched]_vars

SupervisorNext ==
  \/ Connect
  \/ ReconnectTimerFires
  \/ _handleOpen
  \/ PingTick
  \/ MonitorTick
  \/ PongTimeoutFires
  \/ _handlePong
  \/ SocketError
  \/ OrphanError
  \/ _handleClose
  \/ OrphanClose
  \/ ConnectTimeout
  \/ disconnect
  \/ DisconnectResume

Init == WsInit /\ CodecIdle /\ ClientInit /\ CryptoIdle /\ SideIdle

Next == SupervisorNext

Spec == Init /\ [][Next]_vars

\* The correlated requests of a manager constructed with autoReconnect:
\* false, across connect() and disconnect().  The keep-alive and failure
\* handlers of the socket (PingTick, _handlePong, SocketError, MonitorTick,
\* ...) touch neither messageQueue nor a request timer, Spec explores them;
\* the inbound frames of a connection are explored by SpecAuth.
InitReq ==
  /\ WsInit
  /\ CodecIdle
  /\ ClientInit
  /\ SideIdle
  /\ CryptoIdle
  /\ ~autoReconnect
  /\ keepAliveInterval = DefaultKeepAliveInterval

NextReq ==
  \/ Connect
  \/ _handleOpen
  \/ _handleClose
  \/ OrphanClose
  \/ disconnect
  \/ DisconnectResume
  \/ initializeAuth
  \/ loginWithSession
  \/ RequestTimeout

SpecReq == InitReq /\ [][NextReq]_vars

\* One connection from its 'open' event to its end: the requests of
\* initializeAuth and loginWithSession, the frames the server answers with,
\* the request timers, and the close of the socket by either side.  InitAuth
\* is the state _handleOpen leaves after the first connect().
Opened ==
  /\ connectionState = "connected"
  /\ isConnected = TRUE
  /\ isAuthenticated = FALSE
  /\ connectionAttempts = 0
  /\ serverIndex = 0
  /\ ws = "OPEN"
  /\ orphanErr = 0
  /\ orphanClose = 0
  /\ pingInterval = TRUE
  /\ connectionMonitor = TRUE
  /\ pongTimeout = "null"
  /\ pongLeaked = 0
  /\ reconnectTimer = "null"
  /\ reconnectLeaked = 0
  /\ connectWaiters = 0
  /\ discWaiters = 0
  /\ messageQueue = [t \in Tags |-> NoEntry]
  /\ requests = [r \in ReqIds |-> NoRequest]
  /\ lastDelay = NoDelay
  /\ lastOp = "open"
  /\ emitted = <<"connected">>
  /\ clientId = NoClientId
  /\ keysFrom = "none"
  /\ connectionInfo = NoConnectionInfo
  /\ qrPayload = NoPayload
  /\ resolvedWith = NoResolved

OpenedManager ==
  /\ Opened
  /\ autoReconnect = FALSE
  /\ maxReconnectAttempts \in MaxReconnectChoices
  /\ reconnectDelay \in ReconnectDelayChoices
  /\ keepAliveInterval = DefaultKeepAliveInterval
  /\ CodecIdle
  /\ SideIdle
  /\ CryptoIdle

InitAuth == OpenedManager /\ ClientInit

NextAuth ==
  \/ initializeAuth
  \/ loginWithSession
  \/ _handleTextMessage
  \/ RequestTimeout
  \/ _handleClose
  \/ disconnect
  \/ DisconnectResume

SpecAuth == InitAuth /\ [][NextAuth]_vars

\* The routing of inbound frames to the requests of one connection until
\* the server closes it: the handlers that read or write messageQueue and
\* the stored promises.  disconnect() touches neither; SpecAuth and SpecReq
\* explore it.
NextRoute ==
  \/ initializeAuth
  \/ loginWithSession
  \/ _handleTextMessage
  \/ _handleBinaryMessage
  \/ RequestTimeout
  \/ _handleClose

SpecRoute == InitAuth /\ [][NextRoute]_vars

\* the 30 s timer of request id fires
TimerFires(id) ==
  RequestTimeout /\ requests[id].timer /\ ~requests'[id].timer

\* SpecRoute in which every armed 30 s timer eventually fires: setTimeout
\* callbacks run once the delay has passed; no frame has to arrive
SpecRouteLive == SpecRoute /\ \A id \in ReqIds : WF_vars(TimerFires(id))

CodecNext ==
  (Encode \/ Truncate \/ Decode) /\ UNCHANGED <<wsVars, authVars, clientVars, cryptoVars, sideVars>>

CodecManagerIdle ==
  /\ WsInit
  /\ ClientInit
  /\ SideIdle
  /\ CryptoIdle
  /\ autoReconnect
  /\ reconnectDelay = DefaultReconnectDelay
  /\ keepAliveInterval = DefaultKeepAliveInterval

InitCodec == CodecInit /\ CodecManagerIdle

SpecCodec == InitCodec /\ [][CodecNext]_vars

\* The production client over one opened connection: the session login that
\* makes it Ready, its outbound queue, destroy() and logout().
InitClient == OpenedManager /\ ClientOpened

\* _restoreSession(existingSession): initialize() passes a session that
\* _isSessionValid accepted, so all five credential fields are present
_restoreSession ==
  /\ loginWithSessionCall
  /\ sessionData' = "credentials"
  /\ UNCHANGED <<clReady, clAuth, rateLimitTimer, outQueue, outPromise, clWaiting, clOp,
                 clState, clSaves, clSession>>
  /\ UNCHANGED <<codecVars, cryptoVars, sideVars>>

\* a text frame arrives and the client's listeners run inside its handler;
\* only _handleConnectionInfo emits 'authenticated' with the credentials
ClientTextFrame ==
  /\ TextFrame
  /\ ClientHears(IF lastOp' = "text_conn_bare" THEN "credentials" ELSE "undefined")
  /\ UNCHANGED <<codecVars, cryptoVars, sideVars>>

\* the connection monitor fires and the client's listeners run inside it
ClientMonitor ==
  /\ MonitorFires
  /\ ClientHears("undefined")
  /\ UNCHANGED <<codecVars, cryptoVars, sideVars>>

NextClient ==
  \/ _restoreSession
  \/ ClientTextFrame
  \/ ClientMonitor
  \/ SaveDone
  \/ sendMessage
  \/ _processMessageQueue
  \/ destroy
  \/ logout
  \/ ShutdownResume
  \/ ClearDone

SpecClient == InitClient /\ [][NextClient]_vars

(***************************************************************************)
(* The outbound queue of the production client, one dispatch in two steps: *)
(* the interval callback runs _processMessageQueue up to its await, and    *)
(* the awaited message function settles later; sendMessage can run in      *)
(* between.  The client gets Ready through one session login.              *)
(***************************************************************************)
\* this.messageQueue.shift()
Shift_last(queue) ==
  [item |-> queue[Len(queue)], rest |-> SubSeq(queue, 1, Len(queue) - 1)]

Shift(queue) == [item |-> Head(queue), rest |-> Tail(queue)]

QueueFrame == UNCHANGED <<wsVars, authVars, codecVars, cryptoVars, legacyVars, schedVars>>

\* the interval of _startMessageProcessor fires and _processMessageQueue
\* passes its guard: messagingActive is set and the head is shifted
DispatchHead ==
  /\ rateLimitTimer
  /\ ~outActive /\ outQueue # <<>> /\ clReady
  /\ outActive' = TRUE
  /\ outQueue' = Shift(outQueue).rest
  /\ outCurrent' = Shift(outQueue).item
  /\ outLog' = Append(outLog, Shift(outQueue).item)
  /\ clOp' = "dispatch"
  /\ UNCHANGED <<clReady, clAuth, rateLimitTimer, outPromise, clWaiting, clState,
                 clSaves, clSession, sessionData>>
  /\ QueueFrame

\* promise settlement of a queued message: only a pending promise changes
SettleOut(promises, m, outcome) ==
  IF m \in MsgIds /\ promises[m] = "pending"
  THEN [promises EXCEPT ![m] = outcome]
  ELSE promises

\* the awaited message function returned (thrown = FALSE) or threw: the try
\* resolves the shifted item, the catch rejects the item that is last in
\* this.messageQueue at that moment, finally clears messagingActive
FunctionSettles ==
  \E thrown \in BOOLEAN :
    /\ outActive
    /\ outActive' = FALSE
    /\ outCurrent' = 0
    /\ outPromise' =
         IF ~thrown THEN SettleOut(outPromise, outCurrent, "resolved")
         ELSE IF outQueue # <<>>
         THEN SettleOut(outPromise, outQueue[Len(outQueue)], "rejected")
         ELSE outPromise
    /\ clOp' = IF thrown THEN "threw" ELSE "sent"
    /\ UNCHANGED <<clReady, clAuth, rateLimitTimer, outQueue, clWaiting, clState,
                   clSaves, clSession, sessionData, outLog>>
    /\ QueueFrame

\* initialize() restores the session once, before the client is Ready
QueueLogin ==
  /\ clState = "connected"
  /\ \A id \in ReqIds : requests[id].state = "none"
  /\ _restoreSession

QueueAnswer == ~clReady /\ ClientTextFrame

NextQueue ==
  \/ QueueLogin
  \/ QueueAnswer
  \/ SaveDone
  \/ sendMessage
  \/ DispatchHead
  \/ FunctionSettles

SpecQueue == InitClient /\ [][NextQueue]_vars

\* Single calls of whatsappDecrypt and of _handleConnectionInfo, the arguments
\* drawn from the pools above, on a manager whose socket is open.
InitCrypto ==
  /\ CryptoInit
  /\ Opened
  /\ autoReconnect = TRUE
  /\ maxReconnectAttempts \in MaxReconnectChoices
  /\ reconnectDelay \in ReconnectDelayChoices
  /\ keepAliveInterval = DefaultKeepAliveInterval
  /\ CodecIdle
  /\ ClientInit
  /\ SideIdle

NextCrypto == Decrypt \/ HandleConn

SpecCrypto == InitCrypto /\ [][NextCrypto]_vars

\* WhatsAppProductionClient.getInfo(): the 'server' field of the report is
\* read with websocket._getNextServer(), which advances the index
getInfo ==
  /\ serverIndex' = (serverIndex + 1) % NumServers
  /\ lastOp' = "get_info"
  /\ emitted' = <<>>
  /\ UNCHANGED <<connectionState, isConnected, isAuthenticated, autoReconnect,
                 connectionAttempts, maxReconnectAttempts, reconnectDelay,
                 keepAliveInterval, ws, orphanErr, orphanClose,
                 pingInterval, connectionMonitor, pongTimeout, pongLeaked,
                 reconnectTimer, reconnectLeaked, connectWaiters, discWaiters,
                 messageQueue, requests, lastDelay>>
  /\ NoQrEvent
  /\ UNCHANGED restVars

\* The endpoint rotation: a manager without auto-reconnect whose caller
\* connects, loses the connection and asks the client for its report.
InitInfo == Init /\ autoReconnect = FALSE

NextInfo ==
  \/ Connect
  \/ _handleOpen
  \/ SocketError
  \/ _handleClose
  \/ ConnectTimeout
  \/ getInfo

SpecInfo == InitInfo /\ [][NextInfo]_vars

\* The supervisor with autoReconnect enabled and the default keep-alive
\* interval, under a caller that calls connect() once and leaves the rest
\* to the manager: what the sockets and the timers do.
InitKeep ==
  /\ Init
  /\ autoReconnect = TRUE
  /\ keepAliveInterval = DefaultKeepAliveInterval

FirstConnect == lastOp = "new" /\ Connect

NextKeep ==
  \/ FirstConnect
  \/ ReconnectTimerFires
  \/ _handleOpen
  \/ PingTick
  \/ MonitorTick
  \/ PongTimeoutFires
  \/ _handlePong
  \/ SocketError
  \/ _handleClose
  \/ ConnectTimeout

SpecKeep == InitKeep /\ [][NextKeep]_vars

\* SpecKeep in which armed timers eventually fire: the keep-alive interval,
\* the pong deadline and the reconnect timer.  The connection monitor acts
\* only when the link has been silent for three intervals, a socket need
\* not open, fail or close, and the caller need not call connect().
SpecKeepLive ==
  /\ SpecKeep
  /\ WF_vars(PingTick)
  /\ WF_vars(PongTimeoutFires)
  /\ WF_vars(ReconnectTimerFires)

\* ---------------------------------------------------------------------
\* Properties of the binary codec (SpecCodec)
\* ---------------------------------------------------------------------

\* a buffer that encode() produced from a Node has been decoded whole
DecodedNode == cpc = "decoded" /\ ~cTrunc /\ IsNode(cNode)

\* a strict prefix of a buffer that encode() produced has been decoded
DecodedPrefix == cpc = "decoded" /\ cTrunc

\* C1: decode(encode(n)) is structurally equal to n for every Node n, in
\* particular for {tag: "iq", attributes {type: "get", id: "1"}, content:
\* "hello"}.
C1_RoundTrip ==
  DecodedNode => (cOut.ok /\ cOut.val.k = "obj" /\ cOut.val = cNode)

\* C2: decode of a truncated buffer raises an error and never reads a byte
\* at or beyond the end of the buffer.
C2_TruncatedRaises ==
  /\ cpc = "decoded" => ~cOut.oob
  /\ DecodedPrefix => ~cOut.ok

\* ---------------------------------------------------------------------
\* Properties of the connection supervisor (Spec)
\* ---------------------------------------------------------------------

\* the reconnect timers that are armed
ArmedReconnect == reconnectLeaked + (IF reconnectTimer = "armed" THEN 1 ELSE 0)

\* the step runs the catch block of a connect() call
ConnectFailed ==
  /\ connectWaiters' < connectWaiters
  /\ lastOp' \in {"socket_error", "orphan_error", "connect_timeout"}

AtMax == connectionAttempts >= maxReconnectAttempts

\* the step starts a connection attempt
AttemptStarts == connectionState # "connecting" /\ connectionState' = "connecting"

\* C3: a connection attempt that fails with connectionAttempts at
\* maxReconnectAttempts leaves no reconnect timer armed and emits
\* connection_failed; after that only a connect() of the caller starts a
\* connection attempt.
C3_StopsAtMax ==
  [][ /\ (ConnectFailed /\ AtMax) =>
           /\ ArmedReconnect' = 0
           /\ \E i \in 1..Len(emitted') : emitted'[i] = "connection_failed"
      /\ (connectionState = "disconnected" /\ AtMax /\ AttemptStarts) =>
           lastOp' = "connect" ]_vars

\* the step is a keep-alive probe on a socket that is not open, or the
\* expiry of a pong deadline
DeadTrigger ==
  \/ lastOp' \in {"ping", "ping_dead"} /\ ws # "OPEN"
  \/ lastOp' = "pong_timeout"

C5_SingleTimers == ArmedReconnect <= 1 /\ ArmedPong <= 1

C7_IncrementedCounter ==
  [][ /\ lastOp' \in {"ping_dead", "pong_timeout", "monitor_dead"} =>
           connectionAttempts' = connectionAttempts + 1
      /\ lastDelay' # lastDelay => lastDelay'.attempts >= 1 ]_vars

\* C8: a scheduled delay is min(reconnectDelay * 2^(attempts-1), 30000)
\* plus a jitter in [0, 1000); its non-jitter part is non-decreasing in
\* attempts, at least reconnectDelay and at most 30000.
C8_BackoffBounds ==
  /\ \A a \in 1..(AttemptsCap - 1) :
       ExponentialDelay(reconnectDelay, a) <= ExponentialDelay(reconnectDelay, a + 1)
  /\ lastDelay # NoDelay =>
       /\ lastDelay.lo = ExponentialDelay(reconnectDelay, lastDelay.attempts)
       /\ lastDelay.hi = lastDelay.lo + jitterMax
       /\ lastDelay.lo >= reconnectDelay
       /\ lastDelay.lo <= maxDelay

\* ---------------------------------------------------------------------
\* Properties of disconnect() and the pending requests (SpecReq)
\* ---------------------------------------------------------------------

\* C9: a disconnect() that runs to its end while a request is pending
\* leaves no request pending (each was rejected) and the pending map empty.
C9_PendingCancelled ==
  [][ (lastOp' = "disconnect_done" /\ \E id \in ReqIds : requests[id].state = "pending") =>
        /\ \A id \in ReqIds : requests'[id].state # "pending"
        /\ \A tag \in Tags : messageQueue'[tag] = NoEntry ]_vars

\* C10: when disconnect() has run to its end no timer of the manager is
\* armed: keep-alive, monitor, pong deadline, reconnect, the per-request
\* timers and, once a socket terminated while connecting has reported its
\* error, connect timeout.
C10_NoTimerArmed ==
  lastOp = "disconnect_done" =>
    /\ ~pingInterval
    /\ ~connectionMonitor
    /\ ArmedPong = 0
    /\ ArmedReconnect = 0
    /\ orphanErr = 0 => connectWaiters = 0
    /\ \A id \in ReqIds : ~requests[id].timer

\* ---------------------------------------------------------------------
\* Properties of the client's shutdown (SpecClient)
\* ---------------------------------------------------------------------

\* C11: when destroy() or logout() has run to its end the outbound queue is
\* empty and no queued message's promise is still pending.
C11_QueueRejected ==
  clOp \in {"destroy_done", "logout_done"} =>
    /\ outQueue = <<>>
    /\ \A m \in MsgIds : outPromise[m] # "pending"

\* ---------------------------------------------------------------------
\* Properties of disconnect() and connect() (Spec)
\* ---------------------------------------------------------------------

\* the state the claim gives for a manager after disconnect()
Down ==
  /\ connectionState = "disconnected"
  /\ ws = "null"
  /\ ~isConnected
  /\ ~isAuthenticated
  /\ ~autoReconnect

NoTimerOfManager ==
  /\ ~pingInterval
  /\ ~connectionMonitor
  /\ ArmedPong = 0
  /\ ArmedReconnect = 0

\* C12: a disconnect() that runs to its end right after another one has run
\* to its end and left the manager down, leaves the manager disconnected,
\* without socket, not connected, not authenticated, autoReconnect off, and
\* with no timer armed.
C12_SecondDisconnect ==
  [][ (lastOp = "disconnect_done" /\ lastOp' = "disconnect_done" /\ Down) =>
        (Down' /\ NoTimerOfManager') ]_vars

\* C13: once disconnect() has switched autoReconnect off, no step arms a
\* reconnect timer and no reconnect timer starts a connection attempt.
C13_NoReconnectAfterDisconnect ==
  [][ ~autoReconnect =>
        /\ ArmedReconnect' <= ArmedReconnect
        /\ ~(lastOp' = "reconnect_timer" /\ AttemptStarts) ]_vars

\* C14: a connect(), from the caller or from a reconnect timer, that finds
\* connectionState 'connecting' or 'connected' changes neither the socket
\* nor connectionState, connectionAttempts or serverIndex, terminates no
\* socket and adds no waiter.
C14_ConnectNoOp ==
  [][ (lastOp' \in {"connect", "reconnect_timer"}
       /\ connectionState \in {"connecting", "connected"}) =>
        UNCHANGED <<ws, connectionState, connectionAttempts, serverIndex,
                    connectWaiters, orphanErr, orphanClose, isConnected,
                    isAuthenticated>> ]_vars

\* connect() was called on a connected manager with its socket open
C14_Witness ==
  lastOp = "connect" /\ connectionState = "connected" /\ ws = "OPEN"

\* ---------------------------------------------------------------------
\* Properties of the requests of one connection (SpecRoute, SpecAuth)
\* ---------------------------------------------------------------------

\* C15: a settled request never changes its outcome; an inbound text frame
\* settles at most the one pending request that owns the entry under the
\* frame's tag, removing that entry, and a frame never creates an entry, so
\* a later frame with the same tag reaches no resolver or rejecter.
C15_SettledOnce ==
  [][ /\ \A id \in ReqIds :
           requests[id].state \notin {"none", "pending"} =>
             requests'[id].state = requests[id].state
      /\ (lastOp' \in TextOps /\ requests' # requests) =>
           \E id \in ReqIds :
             /\ requests[id].state = "pending"
             /\ messageQueue[requests[id].tag].owner = id
             /\ messageQueue'[requests[id].tag] = NoEntry
             /\ requests'[id].state \in {"resolved", "rejected"}
             /\ \A j \in ReqIds \ {id} : requests'[j] = requests[j]
      /\ lastOp' \in TextOps =>
           \A tag \in Tags : messageQueue[tag] = NoEntry => messageQueue'[tag] = NoEntry
    ]_vars

\* a frame arrived when a request had been resolved by an earlier frame and
\* no entry was left: it went to _handleJsonMessage
C15_Witness ==
  /\ lastOp \in TextOps
  /\ emitted = <<"json_message">>
  /\ \E id \in ReqIds : requests[id].state = "resolved"
  /\ \A tag \in Tags : messageQueue[tag] = NoEntry

\* C16: any two requests that are pending at the same time carry different
\* tags.
C16_DistinctTags ==
  \A i, j \in ReqIds :
    (i # j /\ requests[i].state = "pending" /\ requests[j].state = "pending") =>
      requests[i].tag # requests[j].tag

\* C17: when the timer of a pending request fires, that request is rejected
\* with the timeout error, every other request keeps its state and, if it
\* is pending, its entry, and connectionState, isConnected, isAuthenticated
\* and the keep-alive timers are unchanged.
C17_TimeoutOwnEntry ==
  [][ lastOp' = "request_timeout" =>
        \A id \in ReqIds :
          (requests[id].timer /\ ~requests'[id].timer /\ requests[id].state = "pending") =>
            /\ requests'[id].state = "rejected_timeout"
            /\ \A j \in ReqIds \ {id} :
                 /\ requests'[j] = requests[j]
                 /\ (requests[j].state = "pending" /\ messageQueue[requests[j].tag].owner = j) =>
                      messageQueue'[requests[j].tag].owner = j
            /\ UNCHANGED <<connectionState, isConnected, isAuthenticated, pingInterval,
                           connectionMonitor, pongTimeout>> ]_vars

\* ---------------------------------------------------------------------
\* Properties of whatsappDecrypt and _handleConnectionInfo (SpecCrypto)
\* ---------------------------------------------------------------------

\* the first 32 bytes of kBlob are the HMAC-SHA256 of the rest under kKey
TagMatches ==
  /\ Len(kBlob) >= HmacLen
  /\ SubSeq(kBlob, 1, HmacLen) = hmacSha256(kKey, SubSeq(kBlob, HmacLen + 1, Len(kBlob)))

\* C18: whatsappDecrypt returns a value only for a blob whose tag matches;
\* for a blob whose tag does not match, blobs shorter than 32 bytes
\* included, it throws, returns nothing and never calls aesDecrypt.
C18_VerifyBeforeDecrypt ==
  kpc = "done" =>
    /\ ~kOut.thrown => TagMatches
    /\ kOut.aes => TagMatches
    /\ ~TagMatches => (kOut.thrown /\ ~kOut.aes /\ kOut.value = <<>>)

\* whatsappDecrypt has refused a blob shorter than its tag
C18_Witness ==
  /\ kpc = "done"
  /\ Len(kBlob) < HmacLen
  /\ Len(kBlob) > 0
  /\ kOut.thrown
  /\ ~kOut.aes

\* bytes 32..63 of the secret kBlob are the HMAC-SHA256, under bytes 32..63
\* of the expanded shared secret, of the secret without them
ConnHmacValid ==
  Slice(kBlob, 32, 64) =
    hmacSha256(Slice(hkdf(kKey, Zero32, KeysInfo, 80), 32, 64),
               Slice(kBlob, 0, 32) \o Slice(kBlob, 64, Len(kBlob)))

\* C19: a Conn message whose secret fails the HMAC validation installs no
\* keys, leaves isAuthenticated false and the keep-alive timers as they
\* were, emits auth_failure and emits no authenticated event.
C19_HmacFailureStops ==
  [][ (kpc = "conn_input" /\ kpc' = "conn_done" /\ ~ConnHmacValid) =>
        /\ lastOp' = "conn_hmac_failed"
        /\ keysFrom' = keysFrom
        /\ ~isAuthenticated'
        /\ emitted' = <<"auth_failure", "json_message">>
        /\ UNCHANGED <<pingInterval, connectionMonitor, pongTimeout, reconnectTimer,
                       connectionState, isConnected>> ]_vars

\* a complete secret whose HMAC bytes were tampered with has been refused
C19_Witness ==
  /\ kpc = "conn_done"
  /\ Len(kBlob) >= 64
  /\ ~ConnHmacValid
  /\ lastOp = "conn_hmac_failed"
  /\ emitted = <<"auth_failure", "json_message">>

\* ---------------------------------------------------------------------
\* The QR payload (SpecAuth)
\* ---------------------------------------------------------------------

\* C20: when the response {"status":200,"ref":R} arrives for the pending
\* request of an initializeAuth call, one qr event is emitted whose payload
\* is R, the base64 text of the generated public key and the clientId that
\* call sent, joined by commas, and the call's promise resolves with the
\* same payload.
C20_QrPayload ==
  [][ \A tag \in Tags :
        (/\ lastOp' = "text_200_ref"
         /\ messageQueue[tag].desc = "_login"
         /\ messageQueue'[tag] = NoEntry
         /\ messageQueue[tag].owner \in ReqIds
         /\ requests[messageQueue[tag].owner].state = "pending") =>
          LET owner == messageQueue[tag].owner
          IN /\ emitted' = <<"qr">>
             /\ \E ref \in Refs, publicKey \in PublicKeys :
                  qrPayload' = JoinComma(<<ref, Base64(publicKey), ClientIdOf(owner)>>)
             /\ resolvedWith'[owner] = qrPayload'
             /\ requests'[owner].state = "resolved" ]_vars

\* C30: decode raises on every marker byte that is not 0, not a token index
\* and not one of 250..255, at whatever depth of the buffer _readNode reads
\* it; it never returns a value for a buffer holding such a marker.
C30_UnknownMarkerRaises ==
  (cpc = "decoded" /\ cBuf \in CorruptedBuffers) => ~cOut.ok

\* an unknown marker read inside a nested node (past the first byte) raised
C30_Witness ==
  /\ cpc = "decoded"
  /\ cBuf \in CorruptedBuffers
  /\ cBuf[1] = 255
  /\ \E i \in 2..Len(cBuf) : cBuf[i] \in UnknownMarkers
  /\ ~cOut.ok

\* C24: the endpoint index moves only when a connection attempt starts, and
\* then by exactly one position modulo the number of endpoints; no other
\* operation changes it.
C24_RoundRobin ==
  [][serverIndex' # serverIndex =>
       /\ connectionState' = "connecting"
       /\ connectionAttempts' = connectionAttempts + 1
       /\ serverIndex' = (serverIndex + 1) % NumServers]_vars

\* the handling of an inbound frame that failed to parse, verify, decrypt
\* or decode
FailedFrameOps ==
  {"text_unparsable", "text_200_ref", "text_conn", "text_conn_bare",
   "binary_no_comma", "binary_decrypt_failed", "binary_decode_failed"}

\* C27: the step that handles a failed inbound frame changes neither
\* connectionState, isConnected, isAuthenticated, the session keys, the
\* socket nor any timer (keep-alive, pong, reconnect, request timers), and
\* schedules no reconnect.
C27_FailedFrameDropped ==
  [][lastOp' \in FailedFrameOps =>
       /\ UNCHANGED <<connectionState, isConnected, isAuthenticated, keysFrom, ws,
                      pingInterval, connectionMonitor, pongTimeout, pongLeaked,
                      reconnectTimer, reconnectLeaked>>
       /\ \A id \in ReqIds : requests'[id].timer = requests[id].timer]_vars

\* a frame failed on an authenticated connection whose keep-alive runs
C27_Witness ==
  /\ lastOp \in {"binary_decrypt_failed", "text_conn_bare", "text_unparsable"}
  /\ isAuthenticated
  /\ ws = "OPEN"
  /\ pingInterval

\* C29: when _handleConnectionInfo fails on the HMAC or on the decryption
\* of the key bundle, the secret, the shared secret and the client/server
\* tokens taken from that message are gone from the manager when
\* auth_failure is emitted.
C29_KeyMaterialCleared ==
  (lastOp \in {"conn_hmac_failed", "conn_decrypt_failed"} /\ (\E i \in DOMAIN emitted : emitted[i] = "auth_failure"))
    => \A f \in DOMAIN connectionInfo : connectionInfo[f] # "conn"

\* C28: the promise the legacy connect() returned resolves only with the
\* socket open and the state CONNECTED; when the connection could not be
\* established it rejects.
C28_ResolvesOnlyConnected ==
  lgCaller = "resolved" => lgSettledOpen

\* the step removes the entry that loginWithSession registered under tag:
\* the frame it handles is taken as the answer to the login message
LoginAnswered(tag) ==
  /\ messageQueue[tag].desc = "_restoresession"
  /\ messageQueue'[tag] = NoEntry

\* C26: after loginWithSession the manager becomes authenticated exactly
\* when a status-200 response to the login message arrives, and then emits
\* 'authenticated' and no qr event; a response with another status rejects
\* the login and leaves isAuthenticated as it was.
C26_SessionLogin ==
  [][ /\ \A tag \in Tags :
          (lastOp' \in {"text_200", "text_200_ref"} /\ LoginAnswered(tag)) =>
            /\ isAuthenticated'
            /\ emitted' = <<"authenticated">>
            /\ qrPayload' = NoPayload
      /\ \A tag \in Tags :
          (lastOp' = "text_status" /\ LoginAnswered(tag)) =>
            /\ isAuthenticated' = isAuthenticated
            /\ emitted' = <<>>
            /\ LET owner == messageQueue[tag].owner
               IN (owner \in ReqIds /\ requests[owner].state = "pending")
                    => requests'[owner].state = "rejected"
      /\ (isAuthenticated' /\ ~isAuthenticated) =>
            \E tag \in Tags :
              lastOp' \in {"text_200", "text_200_ref"} /\ LoginAnswered(tag) ]_vars

\* C23: connectionState changes only along the defined edges: to
\* "connecting" from "disconnected" only, to "connected" from "connecting"
\* only, and to "disconnected" from any state.
C23_DefinedEdges ==
  [][connectionState' # connectionState =>
       \/ connectionState' = "disconnected"
       \/ connectionState = "disconnected" /\ connectionState' = "connecting"
       \/ connectionState = "connecting" /\ connectionState' = "connected"]_vars

\* a step in which _processMessageQueue takes a message off the queue and
\* sends it
Dispatch == clOp' = "process" /\ Len(outQueue') < Len(outQueue)

\* C21: a queued message is dispatched only while the client's state is
\* ready; after the state has left ready no message is dispatched until it
\* is ready again.
C21_DispatchOnlyReady ==
  [][Dispatch => clState = "ready"]_vars

\* C25: when the client emits ready the session store holds the
\* credentials of the handshake, passed to session.save before; when
\* logout() has completed the store was cleared.
C25_SavedBeforeReady ==
  /\ clOp = "ready" => clSession = "credentials"
  /\ clOp = "logout_done" => clSession = "cleared"

\* C22: in the scheduler of RealWhatsAppClient the starts of two consecutive
\* dispatches are at least rateLimit.interval / rateLimit.messages ms apart,
\* and no two dispatches are in progress at the same time.
C22_OnePerTick ==
  /\ rlGap # -1 => rlGap * rateLimit.messages >= rateLimit.interval
  /\ rlInFlight <= 1

\* ---------------------------------------------------------------------
\* The body handed to a pending request (SpecRoute)
\* ---------------------------------------------------------------------

\* the step hands a frame of this kind to the pending entry under tag
Routed(tag, kind) ==
  /\ lastOp' = FrameOp(kind)
  /\ messageQueue[tag] # NoEntry
  /\ messageQueue'[tag] = NoEntry

\* C31: when a text frame tag + "," + body matches a pending request, what
\* the request's handler parses is the whole body, commas included, so
\* every well-formed status-200 response resolves the request.
C31_WholeBodyRouted ==
  [][ \A tag \in Tags, kind \in FrameKinds :
        Routed(tag, kind) =>
          /\ MessageContent(tag, kind) = FrameBody(kind)
          /\ LET owner == messageQueue[tag].owner
             IN (/\ kind \in {"status200", "status200ref"}
                 /\ owner \in ReqIds
                 /\ requests[owner].state = "pending")
                  => requests'[owner].state = "resolved" ]_vars

\* ---------------------------------------------------------------------
\* Order of dispatch (SpecQueue)
\* ---------------------------------------------------------------------

\* C32: queued messages are dispatched in the order in which they were
\* enqueued, each at most once: sendMessage hands out the ids in rising
\* order, so the ids in the dispatch log rise strictly.
C32_DispatchedInOrder ==
  \A i, j \in DOMAIN outLog : i < j => outLog[i] < outLog[j]

\* two messages were queued together and both have been dispatched
C32_Witness ==
  /\ Len(outLog) >= 2
  /\ clOp = "dispatch"
  /\ outPromise[outLog[1]] = "resolved"

\* C36: when the function of a dispatched message throws, the promise of
\* that message is rejected and the promise of no other message changes.
C36_OwnPromiseRejected ==
  [][ clOp' = "threw" =>
        /\ outPromise'[outCurrent] = "rejected"
        /\ \A m \in MsgIds : m # outCurrent => outPromise'[m] = outPromise[m] ]_vars

\* ---------------------------------------------------------------------
\* Timers of a disconnected manager (Spec)
\* ---------------------------------------------------------------------

\* C33: whenever connectionState is "disconnected" no keep-alive interval,
\* no connection monitor and no pong-deadline timer is armed, so none of
\* them can fire against a socket opened later.
C33_TimersCancelled ==
  connectionState = "disconnected" =>
    /\ ~pingInterval
    /\ ~connectionMonitor
    /\ ArmedPong = 0

\* ---------------------------------------------------------------------
\* Round trip of scalars and arrays of scalars (SpecCodec)
\* ---------------------------------------------------------------------

\* a string, an integer from 0 to 255 or a byte string
IsScalar(x) ==
  \/ x.k = "str"
  \/ x.k = "num" /\ x.v[1] \in 0..ByteMax
  \/ x.k = "bytes"

IsScalarOrArray(x) ==
  \/ IsScalar(x)
  \/ x.k = "arr" /\ Len(x.v) <= ByteMax /\ \A i \in 1..Len(x.v) : IsScalar(x.v[i])

\* the whole buffer that encode(cNode) produced is at hand
Encoded == cpc \in {"encoded", "decoded"} /\ ~cTrunc /\ cNode # Null

C35_EventuallySettled ==
  \A id \in ReqIds :
    (requests[id].state = "pending") ~> (requests[id].state # "pending")

\* ---------------------------------------------------------------------
\* Authentication and the socket it was obtained on (SpecClient)
\* ---------------------------------------------------------------------

\* C37: isAuthenticated is true only while the socket on which the
\* handshake or session restore succeeded is connected; once the connection
\* was found dead it is false until authentication succeeds again.
C37_AuthenticatedOnlyConnected ==
  isAuthenticated => (isConnected /\ ws = "OPEN")

\* ---------------------------------------------------------------------
\* Recovery from a close by the server (SpecKeepLive)
\* ---------------------------------------------------------------------

\* the server closed the socket and the manager still reports "connected"
ClosedWhileConnected == connectionState = "connected" /\ ws = "CLOSED"

LostEmitted == \E i \in DOMAIN emitted : emitted[i] = "connection_lost"

\* C38: when the server closes the socket of a connected manager with
\* autoReconnect enabled, connection_lost is eventually emitted and a
\* connection attempt is eventually made; the manager does not stay
\* "connected" with a closed socket.
C38_RecoversFromClose ==
  /\ ClosedWhileConnected ~> LostEmitted
  /\ LostEmitted ~> (connectionState = "connecting")

\* the keep-alive interval found the socket closed and armed the reconnect
C38_Witness ==
  /\ lastOp = "ping_dead"
  /\ LostEmitted
  /\ reconnectTimer = "armed"
  /\ connectionState = "disconnected"

\* ---------------------------------------------------------------------
\* disconnect() of the legacy manager (SpecLegacy)
\* ---------------------------------------------------------------------

\* C39: after disconnect() the legacy manager starts no connection attempt
\* and stays DISCONNECTED, also when a reconnect backoff was sleeping at
\* the time of the call (until the caller calls connect() again).
C39_StaysDisconnected ==
  [][ lgDisconnected' =>
        /\ lgState' = "disconnected"
        /\ lgDisconnected => ~(lgSock # "connecting" /\ lgSock' = "connecting") ]_vars

\* ---------------------------------------------------------------------
\* The credential record of the production client (SpecClient)
\* ---------------------------------------------------------------------

\* C40: whenever the production client is authenticated its sessionData is
\* a complete credential record, and every session.save call carries a
\* complete record, also after a login through the restored session.
C40_CompleteCredentials ==
  /\ clAuth => sessionData = "credentials"
  /\ \A i \in DOMAIN clSaves : clSaves[i] = "credentials"

====
